---- MODULE Spec2Model ----
(***************************************************************************)
(* GraphTabs background service worker: the thumbnail cache subsystem.     *)
(*                                                                         *)
(* The service worker is single threaded: a handler runs from one await    *)
(* to the next without interruption.  Every action below is one such run:  *)
(* a tab event handler, a timer callback, or the continuation of one       *)
(* captureThumbnail / hydrateThumbnailCache call after the host call it    *)
(* awaits has settled.  Every reachable state is therefore a point where   *)
(* another task (for example a thumb:get message) can run.                 *)
(*                                                                         *)
(* chrome.storage.session is modelled by `durable`: a set/remove call      *)
(* takes effect when it is issued (calls of one context are served in      *)
(* issue order) and its promise settles later, when the awaiting task      *)
(* resumes; a call that fails has no effect and its promise rejects.       *)
(***************************************************************************)
EXTENDS Integers, Sequences, FiniteSets, TLC

\* ------------------------------------------------------------------ bounds
\* Scaled-down THUMB_MAX_ENTRIES (120 in the source).
THUMB_MAX_ENTRIES == 1
\* Scaled-down THUMB_MAX_TOTAL_BYTES (8 MiB in the source).
THUMB_MAX_TOTAL_BYTES == 8
\* Date.now() ranges over 0..MaxTime (the clock stops at MaxTime).
MaxTime == 1
\* At most MaxFailures chrome.storage.session calls fail in one run.
MaxFailures == 1

\* ------------------------------------------------------- program constants
CAPTURE_DEBOUNCE_MS == 200

TabIds == {1, 2, 3}
\* The tabs that open in the runs of Spec, GateSpec, StoreSpec and LiveSpec;
\* the third tab opens in the runs of LruSpec only.
FirstTabs == {1, 2}
WindowIds == {1, 2}

\* The keys of chrome.storage.session: getThumbnailStorageKey(t) for each tab
\* id t, and a key that names no tab (it lacks THUMB_STORAGE_PREFIX, or no
\* number follows the prefix: lines 432, 434-435).
ForeignKey == 0
StorageKeys == TabIds \cup {ForeignKey}

\* null (a data URL that is absent), undefined (Map.get of an absent key, a
\* storage key without a record), a field of a stored record that is no number.
Null == [null |-> TRUE]
NoEntry == [undefined |-> TRUE]
NotANumber == 0 - 1
NoTimer == [timer |-> FALSE]
\* A stored value that is no object (line 433).
NotAnObject == [primitive |-> TRUE]

\* ---------------------------------------------------------------- messages
\* Error messages are character sequences, so that the pattern match of
\* isCaptureBlockedError is computed on their text.
MsgPermissionDenied ==
  <<"p", "e", "r", "m", "i", "s", "s", "i", "o", "n", " ", "d", "e", "n", "i", "e", "d">>
MsgNetworkTimeout ==
  <<"n", "e", "t", "w", "o", "r", "k", " ", "t", "i", "m", "e", "o", "u", "t">>
MsgCaptureFailed ==
  <<"c", "a", "p", "t", "u", "r", "e", "V", "i", "s", "i", "b", "l", "e", "T", "a", "b", " ", "f", "a", "i", "l", "e", "d">>
MsgEmptyDataUrl ==
  <<"c", "a", "p", "t", "u", "r", "e", "V", "i", "s", "i", "b", "l", "e", "T", "a", "b", " ", "r", "e", "t", "u", "r", "n", "e", "d", " ", "e", "m", "p", "t", "y", " ", "d", "a", "t", "a", "U", "r", "l">>
MsgNoTab ==
  <<"N", "o", " ", "t", "a", "b", " ", "w", "i", "t", "h", " ", "i", "d">>
\* "quota bytes exceeded"
MsgQuota ==
  <<"q", "u", "o", "t", "a", " ", "b", "y", "t", "e", "s", " ", "e", "x", "c", "e", "e", "d", "e", "d">>
\* "Access to storage is not allowed from this context."
MsgStorageNotAllowed ==
  <<"A", "c", "c", "e", "s", "s", " ", "t", "o", " ", "s", "t", "o", "r", "a", "g", "e", " ", "i", "s", " ", "n", "o", "t", " ", "a", "l", "l", "o", "w", "e", "d", " ", "f", "r", "o", "m", " ", "t", "h", "i", "s", " ", "c", "o", "n", "t", "e", "x", "t", ".">>
\* An error that carries no message.
MsgNone == << >>

\* What chrome.tabs.captureVisibleTab can reject with.
ScreenshotErrors == {MsgPermissionDenied, MsgNetworkTimeout, MsgNone}
\* What chrome.tabs.get can reject with: the text of the browser for a tab
\* that is gone, and a text that names a permission.
LookupErrors == {MsgNoTab, MsgPermissionDenied}
\* What chrome.storage.session.set / remove can reject with.
StorageErrors == {MsgQuota, MsgStorageNotAllowed}

BlockedPatterns ==
  { <<"p", "e", "r", "m", "i", "s", "s", "i", "o", "n">>,
    <<"v", "i", "s", "i", "b", "l", "e", " ", "t", "a", "b">>,
    <<"a", "c", "t", "i", "v", "e", " ", "t", "a", "b">>,
    <<"a", "l", "l", "o", "w", "e", "d">>,
    <<"c", "a", "p", "t", "u", "r", "e">> }

LowerMap ==
  "A" :> "a" @@ "B" :> "b" @@ "C" :> "c" @@ "D" :> "d" @@ "E" :> "e" @@ "F" :> "f" @@
  "G" :> "g" @@ "H" :> "h" @@ "I" :> "i" @@ "J" :> "j" @@ "K" :> "k" @@ "L" :> "l" @@
  "M" :> "m" @@ "N" :> "n" @@ "O" :> "o" @@ "P" :> "p" @@ "Q" :> "q" @@ "R" :> "r" @@
  "S" :> "s" @@ "T" :> "t" @@ "U" :> "u" @@ "V" :> "v" @@ "W" :> "w" @@ "X" :> "x" @@
  "Y" :> "y" @@ "Z" :> "z"

ToLower(c) == IF c \in DOMAIN LowerMap THEN LowerMap[c] ELSE c

\* pattern occurs in message at position i, ignoring case
MatchesAt(message, pattern, i) ==
  /\ i + Len(pattern) - 1 <= Len(message)
  /\ \A j \in 1..Len(pattern) : ToLower(message[i + j - 1]) = pattern[j]

\* /permission|visible tab|active tab|allowed|capture/i.test(message)
RegexTest(message) ==
  \E pattern \in BlockedPatterns : \E i \in 1..Len(message) : MatchesAt(message, pattern, i)

\* isCaptureBlockedError(error) for an Error object whose message is `message`.
IsCaptureBlockedError(message) ==
  IF message = MsgNone THEN FALSE ELSE RegexTest(message)

\* The Error thrown by the .catch wrapper around captureVisibleTab (line 315).
WrapScreenshotError(message) ==
  IF message = MsgNone THEN MsgCaptureFailed ELSE message

\* ---------------------------------------------------------------- data URLs
\* A data URL is [comma, head, payload, pad]: whether it holds a ',', the
\* number of characters up to and including the ',' (all of them when there
\* is none), the number of base64 characters after it, and how many of these
\* are '=' padding.
Base64Url(payload, pad) ==
  [comma |-> TRUE, head |-> 23, payload |-> payload, pad |-> pad]

\* A data URL whose payload needs no padding.
DataUrl(payload) == Base64Url(payload, 0)

\* What captureVisibleTab resolves with (full resolution).
ScreenshotUrls == {DataUrl(8)}
\* What downscaleDataUrl produces from the canvas.
ThumbUrl == DataUrl(4)

Ceil(n, d) == (n + d - 1) \div d

estimateDataUrlBytes(dataUrl) ==
  IF ~dataUrl.comma THEN dataUrl.head
  ELSE Ceil(dataUrl.payload * 3, 4)


\* --------------------------------------------------------------- JS Map
\* thumbnailState.entries is a Map: a sequence of <<tabId, entry>> pairs in
\* insertion order (Map.set on a present key keeps the key's position).
MapKeys(m) == [i \in 1..Len(m) |-> m[i][1]]
MapHas(m, k) == \E i \in 1..Len(m) : m[i][1] = k
MapGet(m, k) ==
  IF MapHas(m, k) THEN m[CHOOSE i \in 1..Len(m) : m[i][1] = k][2] ELSE NoEntry
MapSet(m, k, v) ==
  IF MapHas(m, k) THEN [i \in 1..Len(m) |-> IF m[i][1] = k THEN <<k, v>> ELSE m[i]]
  ELSE Append(m, <<k, v>>)
MapDelete(m, k) == SelectSeq(m, LAMBDA p : p[1] # k)

RemoveAt(seq, i) == SubSeq(seq, 1, i - 1) \o SubSeq(seq, i + 1, Len(seq))

RECURSIVE SumBytes(_)
SumBytes(m) == IF m = << >> THEN 0 ELSE Head(m)[2].bytes + SumBytes(Tail(m))

\* ------------------------------------------------------------ the store
\* The cache store is the record [entries, totalBytes, durable]: the two
\* fields of thumbnailState the store owns, and chrome.storage.session
\* (the record kept under the key getThumbnailStorageKey(tabId), or NoEntry).

\* saveThumbnail, mutated: the previous entry's bytes are not subtracted.
saveThumbnail_noDelta(st, tabId, dataUrl, blocked, lastUpdated, ok) ==
  LET bytes == IF dataUrl # Null THEN estimateDataUrlBytes(dataUrl) ELSE 0
      entry == [dataUrl |-> dataUrl, blocked |-> blocked,
                lastUpdated |-> lastUpdated, bytes |-> bytes]
  IN  [entries |-> MapSet(st.entries, tabId, entry),
       totalBytes |-> st.totalBytes + bytes,
       durable |-> IF ok THEN [st.durable EXCEPT ![tabId] = entry] ELSE st.durable]

\* saveThumbnail up to its first await (lines 395-405): the in-memory update
\* and the chrome.storage.session.set call, which succeeds iff ok.
saveThumbnail(st, tabId, dataUrl, blocked, lastUpdated, ok) ==
  LET existing == MapGet(st.entries, tabId)
      total1 == IF existing # NoEntry THEN st.totalBytes - existing.bytes
                ELSE st.totalBytes
      bytes == IF dataUrl # Null THEN estimateDataUrlBytes(dataUrl) ELSE 0
      entry == [dataUrl |-> dataUrl, blocked |-> blocked,
                lastUpdated |-> lastUpdated, bytes |-> bytes]
  IN  [entries |-> MapSet(st.entries, tabId, entry),
       totalBytes |-> total1 + bytes,
       durable |-> IF ok THEN [st.durable EXCEPT ![tabId] = entry] ELSE st.durable]

\* removeThumbnail, mutated: the bytes of the entry stay in totalBytes.
removeThumbnail_keepsBytes(st, tabId, ok) ==
  LET existing == MapGet(st.entries, tabId)
  IN  IF existing = NoEntry THEN st
      ELSE [entries |-> MapDelete(st.entries, tabId),
            totalBytes |-> st.totalBytes,
            durable |-> IF ok THEN [st.durable EXCEPT ![tabId] = NoEntry]
                        ELSE st.durable]

\* removeThumbnail, mutated: the chrome.storage.session record is left behind.
removeThumbnail_memoryOnly(st, tabId, ok) ==
  LET existing == MapGet(st.entries, tabId)
  IN  IF existing = NoEntry THEN st
      ELSE [entries |-> MapDelete(st.entries, tabId),
            totalBytes |-> st.totalBytes - existing.bytes,
            durable |-> st.durable]

\* removeThumbnail up to its await (lines 410-414); nothing follows the await.
removeThumbnail(st, tabId, ok) ==
  LET existing == MapGet(st.entries, tabId)
  IN  IF existing = NoEntry THEN st
      ELSE [entries |-> MapDelete(st.entries, tabId),
            totalBytes |-> st.totalBytes - existing.bytes,
            durable |-> IF ok THEN [st.durable EXCEPT ![tabId] = NoEntry]
                        ELSE st.durable]

\* The condition of lines 451 and 457.
WithinBounds(st) ==
  /\ Len(st.entries) <= THUMB_MAX_ENTRIES
  /\ st.totalBytes <= THUMB_MAX_TOTAL_BYTES

\* (a[1].lastUpdated ?? 0)
SortKey(entry) == IF entry.lastUpdated = NotANumber THEN 0 ELSE entry.lastUpdated

\* Array.prototype.sort is stable: p goes after every pair whose key is <= its own.
RECURSIVE InsertSorted(_, _)
InsertSorted(sorted, p) ==
  IF sorted = << >> THEN <<p>>
  ELSE IF SortKey(Head(sorted)[2]) <= SortKey(p[2])
       THEN <<Head(sorted)>> \o InsertSorted(Tail(sorted), p)
       ELSE <<p>> \o sorted

RECURSIVE SortByLastUpdated(_)
SortByLastUpdated(m) ==
  IF m = << >> THEN << >>
  ELSE InsertSorted(SortByLastUpdated(SubSeq(m, 1, Len(m) - 1)), m[Len(m)])

\* Lines 454-455, mutated: the candidates are taken newest first.
EvictionCandidates_newestFirst(entries) ==
  LET sorted == SortByLastUpdated(entries)
  IN  [i \in 1..Len(sorted) |-> sorted[Len(sorted) + 1 - i][1]]

\* Lines 454-455: the tab ids of the snapshot, sorted by ascending lastUpdated.
EvictionCandidates(entries) == MapKeys(SortByLastUpdated(entries))

\* The for loop of evictThumbnailsIfNeeded (lines 456-461) from the candidate
\* list `snap` up to the next chrome.storage.session.remove it awaits:
\* [st, snap, awaiting].  removeThumbnail of an absent tab returns at once.
RECURSIVE EvictLoop(_, _, _)
EvictLoop(st, snap, ok) ==
  IF snap = << >> THEN [st |-> st, snap |-> << >>, awaiting |-> FALSE]
  ELSE IF WithinBounds(st) THEN [st |-> st, snap |-> << >>, awaiting |-> FALSE]
  ELSE IF ~MapHas(st.entries, Head(snap)) THEN EvictLoop(st, Tail(snap), ok)
  ELSE [st |-> removeThumbnail(st, Head(snap), ok), snap |-> Tail(snap),
        awaiting |-> TRUE]

\* evictThumbnailsIfNeeded from its entry up to its first await (lines 451-460).
evictThumbnailsIfNeeded(st, ok) ==
  IF WithinBounds(st) THEN [st |-> st, snap |-> << >>, awaiting |-> FALSE]
  ELSE EvictLoop(st, EvictionCandidates(st.entries), ok)

\* typeof value.dataUrl === 'string' ... (lines 436-443): the entry hydrate
\* builds from a stored record; Null stands for a field that is missing or of
\* another type (NotANumber for the numbers), `now` for Date.now().
HydrateEntry(value, now) ==
  [dataUrl |-> value.dataUrl,
   blocked |-> value.blocked,
   lastUpdated |-> IF value.lastUpdated # NotANumber THEN value.lastUpdated ELSE now,
   bytes |-> IF value.bytes # NotANumber /\ value.bytes # 0 THEN value.bytes
             ELSE IF value.dataUrl # Null THEN estimateDataUrlBytes(value.dataUrl)
             ELSE 0]

\* The for loop of hydrateThumbnailCache (lines 431-446) over the keys in the
\* order `keys` in which Object.entries lists them.
RECURSIVE HydrateLoop(_, _, _)
HydrateLoop(st, keys, now) ==
  IF keys = << >> THEN st
  ELSE IF Head(keys) \notin TabIds THEN HydrateLoop(st, Tail(keys), now)
  ELSE IF st.durable[Head(keys)] = NotAnObject THEN HydrateLoop(st, Tail(keys), now)
  ELSE LET tabId == Head(keys)
           entry == HydrateEntry(st.durable[tabId], now)
       IN  HydrateLoop([st EXCEPT !.entries = MapSet(st.entries, tabId, entry),
                                  !.totalBytes = st.totalBytes + entry.bytes],
                       Tail(keys), now)


\* ------------------------------------------------------------------ state
VARIABLES
  boot,        \* the init() task: where hydrateThumbnailCache stands
  tabs,        \* the browser: per tab id its status, active flag and window
  timers,      \* thumbnailState.timers: the debounce timer registered for a tab
  armed,       \* per tab id, the timeouts set and neither fired nor cleared
  requested,   \* per tab id, the last request whose timer has not fired yet (history)
  inflight,    \* thumbnailState.inflight
  caps,        \* per tab id, the captureThumbnail calls that are suspended
  lookups,     \* onActivated / onReplaced handlers awaiting chrome.tabs.get
  entries,     \* thumbnailState.entries
  totalBytes,  \* thumbnailState.totalBytes
  durable,     \* chrome.storage.session: tab id -> stored record
  now,         \* the last value Date.now() returned
  faults,      \* the number of chrome.storage.session calls that failed
  graph,       \* graphState of the service worker, its broadcast timer and messages
  page         \* the state of the page ui/tabgraph.js and its fetches under way

vars == <<boot, tabs, timers, armed, requested, inflight, caps, lookups, entries,
          totalBytes, durable, now, faults, graph, page>>

Store == [entries |-> entries, totalBytes |-> totalBytes, durable |-> durable]

SetStore(st) ==
  /\ entries' = st.entries
  /\ totalBytes' = st.totalBytes
  /\ durable' = st.durable

\* What Date.now() can return next: the clock never runs backwards.
Clock == {now} \cup {time \in {now + 1} : time <= MaxTime}

NoTab == [status |-> "new", active |-> FALSE, windowId |-> 0]
ClosedTab == [status |-> "closed", active |-> FALSE, windowId |-> 0]
IsOpen(t) == tabs[t].status = "open"
\* The browser hands out tab ids in increasing order.
IsNextId(t) == tabs[t].status = "new" /\ \A u \in TabIds : u < t => tabs[u].status # "new"

\* The browser makes t the active tab of its window.
MakeActive(tb, t) ==
  [u \in TabIds |->
     IF u = t THEN [tb[u] EXCEPT !.active = TRUE]
     ELSE IF tb[u].status = "open" /\ tb[u].windowId = tb[t].windowId
          THEN [tb[u] EXCEPT !.active = FALSE]
          ELSE tb[u]]

\* init, mutated: the listeners are wired at load, before hydrate is awaited.
Ready_atLoad == TRUE

\* init() has awaited hydrate and wired the listeners (lines 37-45).
Ready == boot.pc = "ready"

\* ------------------------------------------------------------ Capture Gate
\* setTimeout(..., CAPTURE_DEBOUNCE_MS) with the arguments its callback closes over.
Timer(windowId, reason) ==
  [timer |-> TRUE, windowId |-> windowId, reason |-> reason,
   delay |-> CAPTURE_DEBOUNCE_MS]

NoRequest == [requested |-> FALSE]

\* The gate is the record [timers, armed]: the timers map and the timeouts
\* of the host that are set.
Gate == [timers |-> timers, armed |-> armed]

SetGate(g) ==
  /\ timers' = g.timers
  /\ armed' = g.armed

\* clearTimeout(existing): the timeout is taken from those that are set.
ClearTimeout(set, existing) ==
  IF \E i \in DOMAIN set : set[i] = existing
  THEN RemoveAt(set, CHOOSE i \in DOMAIN set : set[i] = existing)
  ELSE set

\* scheduleThumbnailCapture, mutated: a pending timer is kept, the request dropped.
scheduleThumbnailCapture_keepFirst(g, fl, tabId, windowId, reason) ==
  IF tabId \in fl THEN g
  ELSE IF g.timers[tabId] # NoTimer THEN g
  ELSE [timers |-> [g.timers EXCEPT ![tabId] = Timer(windowId, reason)],
        armed |-> [g.armed EXCEPT ![tabId] = Append(@, Timer(windowId, reason))]]

\* scheduleThumbnailCapture, mutated: a request is accepted while a capture of
\* the tab is in flight.
scheduleThumbnailCapture_queues(g, fl, tabId, windowId, reason) ==
  LET existing == g.timers[tabId]
      kept == IF existing # NoTimer THEN ClearTimeout(g.armed[tabId], existing)
              ELSE g.armed[tabId]
  IN  [timers |-> [g.timers EXCEPT ![tabId] = Timer(windowId, reason)],
       armed |-> [g.armed EXCEPT ![tabId] = Append(kept, Timer(windowId, reason))]]

\* scheduleThumbnailCapture, mutated: the timeout of the earlier request is not
\* cleared.
scheduleThumbnailCapture_leaks(g, fl, tabId, windowId, reason) ==
  IF tabId \in fl THEN g
  ELSE [timers |-> [g.timers EXCEPT ![tabId] = Timer(windowId, reason)],
        armed |-> [g.armed EXCEPT ![tabId] = Append(@, Timer(windowId, reason))]]

\* scheduleThumbnailCapture (lines 283-298): the gate it leaves.
scheduleThumbnailCapture(g, fl, tabId, windowId, reason) ==
  IF tabId \in fl THEN g
  ELSE LET existing == g.timers[tabId]
           kept == IF existing # NoTimer THEN ClearTimeout(g.armed[tabId], existing)
                   ELSE g.armed[tabId]
       IN  [timers |-> [g.timers EXCEPT ![tabId] = Timer(windowId, reason)],
            armed |-> [g.armed EXCEPT ![tabId] = Append(kept, Timer(windowId, reason))]]

\* A handler calls scheduleThumbnailCapture(t, w, reason).  The request is
\* recorded with its arguments, and with whether it came while an earlier
\* request for t was waiting for its timer.
Request(t, w, reason) ==
  /\ SetGate(scheduleThumbnailCapture(Gate, inflight, t, w, reason))
  /\ requested' = IF t \in inflight THEN requested
                  ELSE [requested EXCEPT ![t] =
                          [requested |-> TRUE, windowId |-> w, reason |-> reason,
                           superseding |-> requested[t] # NoRequest]]

\* A handler returns without a call of scheduleThumbnailCapture.
NoCall == UNCHANGED <<timers, armed, requested>>

\* ---------------------------------------------------------------- Capturer
\* One suspended captureThumbnail call: the host call it awaits (pc), the
\* arguments and locals it still needs (for sendMessage: the reason it sent),
\* whether it is inside the catch block, the eviction candidates not yet
\* visited, and whether the storage call it awaits is going to reject.
Task(pc, windowId, reason, img, inCatch, snap, rejects) ==
  [pc |-> pc, windowId |-> windowId, reason |-> reason, img |-> img,
   inCatch |-> inCatch, snap |-> snap, rejects |-> rejects]

DoneTask == Task("done", 0, "", Null, FALSE, << >>, FALSE)

\* The finally block (line 346) is reached: the call is over.
Finished(st) == [st |-> st, task |-> DoneTask]

\* notifyThumbUpdate(tabId, reason) up to its await (line 419): the
\* thumb:update message is sent.
notifyThumbUpdate(st, task, reason) ==
  [st |-> st, task |-> Task("sendMessage", 0, reason, Null, task.inCatch, << >>, FALSE)]

\* The rest of saveThumbnail after an eviction step r: either the pass awaits a
\* chrome.storage.session.remove, or saveThumbnail returns and the
\* notification follows (lines 332 and 341).
AfterEvict(r, task, ok) ==
  IF r.awaiting
  THEN [st |-> r.st,
        task |-> Task("storage.remove", 0, task.reason, Null, task.inCatch,
                      r.snap, ~ok)]
  ELSE notifyThumbUpdate(r.st, task, IF task.inCatch THEN "blocked" ELSE task.reason)

\* await saveThumbnail(...) up to the chrome.storage.session.set it awaits;
\* `time` is Date.now().
Save(st, tabId, task, dataUrl, blocked, time, ok) ==
  [st |-> saveThumbnail(st, tabId, dataUrl, blocked, time, ok),
   task |-> Task("storage.set", 0, task.reason, Null, task.inCatch, << >>, ~ok)]

AllMessages ==
  {MsgPermissionDenied, MsgNetworkTimeout, MsgCaptureFailed, MsgEmptyDataUrl,
   MsgNoTab, MsgQuota, MsgStorageNotAllowed}

\* The messages isCaptureBlockedError classifies as capture-forbidden.
BlockedMessages == {m \in AllMessages : IsCaptureBlockedError(m)}

\* An error with message `message` is thrown in captureThumbnail: inside the
\* try block it reaches the catch block (lines 333-344), inside the catch
\* block it leaves the function through finally.
Thrown(st, tabId, task, message, time, ok) ==
  IF task.inCatch THEN Finished(st)
  ELSE IF message \in BlockedMessages
       THEN Save(st, tabId, [task EXCEPT !.inCatch = TRUE], Null, TRUE, time, ok)
       ELSE Finished(st)

\* The finally block, mutated: the in-flight slot is released at every resume.
Release_early(fl, tabId, task) == fl \ {tabId}

\* The finally block, mutated: the in-flight slot is never released.
Release_never(fl, tabId, task) == fl

\* thumbnailState.inflight after a resume of a call of tabId that leaves it
\* as `task`: the slot is released in the finally block (lines 345-347).
Release(fl, tabId, task) == IF task.pc = "done" THEN fl \ {tabId} ELSE fl

\* The call i of tab t moves on with result r; Date.now() was read (and
\* returned `time`) iff a saveThumbnail was started.
Continue(t, i, r, time) ==
  /\ SetStore(r.st)
  /\ caps' = IF r.task.pc = "done" THEN [caps EXCEPT ![t] = RemoveAt(caps[t], i)]
             ELSE [caps EXCEPT ![t][i] = r.task]
  /\ inflight' = Release(inflight, t, r.task)
  /\ now' = IF r.task.pc = "storage.set" THEN time ELSE now
  /\ faults' = IF r.task.rejects THEN faults + 1 ELSE faults
  /\ UNCHANGED <<boot, tabs, timers, armed, requested, lookups>>

\* ------------------------------------------------------- tab event handlers
\* chrome.tabs.onCreated (lines 51-58): tab t opens in window w.
TabCreated(t, w, active) ==
  /\ Ready
  /\ IsNextId(t)
  /\ LET opened == [tabs EXCEPT ![t] = [status |-> "open", active |-> FALSE,
                                        windowId |-> w]]
     IN  tabs' = IF active THEN MakeActive(opened, t) ELSE opened
  /\ IF active THEN Request(t, w, "created-active") ELSE NoCall
  /\ UNCHANGED <<boot, inflight, caps, lookups, entries, totalBytes, durable, now, faults>>

\* chrome.tabs.onUpdated with changeInfo.status === 'complete' (lines 60-71).
TabUpdated(t) ==
  /\ Ready
  /\ IsOpen(t)
  /\ tabs[t].active
  /\ Request(t, tabs[t].windowId, "updated-complete")
  /\ UNCHANGED <<boot, tabs, inflight, caps, lookups, entries, totalBytes,
                 durable, now, faults>>

\* chrome.tabs.onActivated up to its await of chrome.tabs.get (lines 73-75).
\* (Bound: the next activation or replacement comes when the chrome.tabs.get
\* of the previous one has settled.)
TabActivated(t) ==
  /\ Ready
  /\ IsOpen(t)
  /\ ~tabs[t].active
  /\ lookups = {}
  /\ tabs' = MakeActive(tabs, t)
  /\ lookups' = lookups \cup {[kind |-> "activated", tabId |-> t]}
  /\ UNCHANGED <<boot, timers, armed, requested, inflight, caps, entries, totalBytes, durable, now, faults>>

\* chrome.tabs.onAttached (lines 91-100): t was moved to window w, where it is
\* the active tab; the handler touches the graph only.
TabAttached(t, w) ==
  /\ Ready
  /\ IsOpen(t)
  /\ tabs[t].windowId # w
  /\ tabs' = MakeActive([tabs EXCEPT ![t].windowId = w], t)
  /\ UNCHANGED <<boot, timers, armed, requested, inflight, caps, lookups, entries, totalBytes,
                 durable, now, faults>>

\* chrome.tabs.onRemoved (lines 85-89); the storage remove succeeds iff ok.
TabRemoved(t, ok) ==
  /\ Ready
  /\ IsOpen(t)
  /\ tabs' = [tabs EXCEPT ![t] = ClosedTab]
  /\ SetStore(removeThumbnail(Store, t, ok))
  /\ faults' = IF MapHas(entries, t) /\ ~ok THEN faults + 1 ELSE faults
  /\ UNCHANGED <<boot, timers, armed, requested, inflight, caps, lookups, now>>

\* chrome.tabs.onReplaced up to its await of chrome.tabs.get (lines 118-122):
\* tab `added` takes the place of tab `removed`.
TabReplaced(added, removed, ok) ==
  /\ Ready
  /\ IsOpen(removed)
  /\ IsNextId(added)
  /\ lookups = {}
  /\ tabs' = [tabs EXCEPT ![removed] = ClosedTab,
                          ![added] = [tabs[removed] EXCEPT !.status = "open"]]
  /\ SetStore(removeThumbnail(Store, removed, ok))
  /\ faults' = IF MapHas(entries, removed) /\ ~ok THEN faults + 1 ELSE faults
  /\ lookups' = lookups \cup {[kind |-> "replaced", tabId |-> added]}
  /\ UNCHANGED <<boot, timers, armed, requested, inflight, caps, now>>

\* chrome.tabs.get settles in onActivated (lines 76-82) or onReplaced
\* (lines 123-131); it rejects when the tab is gone.
LookupDone(l) ==
  /\ l \in lookups
  /\ lookups' = lookups \ {l}
  /\ LET t == l.tabId
     IN  IF ~IsOpen(t) THEN NoCall
         ELSE IF l.kind = "activated" THEN Request(t, tabs[t].windowId, "activated")
         ELSE IF tabs[t].active THEN Request(t, tabs[t].windowId, "replaced-active")
         ELSE NoCall
  /\ UNCHANGED <<boot, tabs, inflight, caps, entries, totalBytes, durable, now, faults>>

\* ------------------------------------------------------------ timer callback
\* The timer callback, mutated: the timeout stays set and fires again.
TimerFire_repeats(t) ==
  \E k \in DOMAIN armed[t] :
    /\ requested' = [requested EXCEPT ![t] = NoRequest]
    /\ IF t \in inflight
       THEN UNCHANGED <<inflight, caps>>
       ELSE /\ inflight' = inflight \cup {t}
            /\ caps' = [caps EXCEPT ![t] =
                          Append(@, Task("tabs.get", armed[t][k].windowId,
                                         armed[t][k].reason, Null, FALSE, << >>, FALSE))]
    /\ UNCHANGED <<boot, tabs, timers, armed, lookups, entries, totalBytes, durable,
                   now, faults>>

\* A timeout set for t fires (lines 290-296) and captureThumbnail runs up to its
\* await of chrome.tabs.get (lines 301-304).
TimerFire(t) ==
  \E k \in DOMAIN armed[t] :
    /\ armed' = [armed EXCEPT ![t] = RemoveAt(@, k)]
    /\ timers' = [timers EXCEPT ![t] = NoTimer]
    /\ requested' = [requested EXCEPT ![t] = NoRequest]
    /\ IF t \in inflight
       THEN UNCHANGED <<inflight, caps>>
       ELSE /\ inflight' = inflight \cup {t}
            /\ caps' = [caps EXCEPT ![t] =
                          Append(@, Task("tabs.get", armed[t][k].windowId,
                                         armed[t][k].reason, Null, FALSE, << >>, FALSE))]
    /\ UNCHANGED <<boot, tabs, lookups, entries, totalBytes, durable, now, faults>>

\* ------------------------------------------------- captureThumbnail resumes
\* The lookup, mutated: the active flag of the tab is not looked at.
CaptureGetTab_anyTab(t, message, time, ok) ==
  \E i \in DOMAIN caps[t] :
    /\ caps[t][i].pc = "tabs.get"
    /\ Continue(t, i,
         IF ~IsOpen(t) THEN Thrown(Store, t, caps[t][i], message, time, ok)
         ELSE [st |-> Store, task |-> [caps[t][i] EXCEPT !.pc = "captureVisibleTab"]],
         time)

\* chrome.tabs.get settles (lines 304-311); for a tab that is gone it rejects
\* with `message`.
CaptureGetTab(t, message, time, ok) ==
  \E i \in DOMAIN caps[t] :
    /\ caps[t][i].pc = "tabs.get"
    /\ Continue(t, i,
         IF ~IsOpen(t) THEN Thrown(Store, t, caps[t][i], message, time, ok)
         ELSE IF ~tabs[t].active THEN Finished(Store)
         ELSE [st |-> Store, task |-> [caps[t][i] EXCEPT !.pc = "captureVisibleTab"]],
         time)

\* chrome.tabs.captureVisibleTab resolves with a data URL (lines 311-322).
ScreenshotTaken(t, dataUrl) ==
  \E i \in DOMAIN caps[t] :
    /\ caps[t][i].pc = "captureVisibleTab"
    /\ Continue(t, i,
         [st |-> Store,
          task |-> Task("downscale", 0, caps[t][i].reason, dataUrl, FALSE, << >>, FALSE)],
         now)

\* chrome.tabs.captureVisibleTab resolves with nothing (lines 318-320).
ScreenshotEmpty(t, time, ok) ==
  \E i \in DOMAIN caps[t] :
    /\ caps[t][i].pc = "captureVisibleTab"
    /\ Continue(t, i, Thrown(Store, t, caps[t][i], MsgEmptyDataUrl, time, ok), time)

\* chrome.tabs.captureVisibleTab rejects (lines 314-316).
ScreenshotFailed(t, message, time, ok) ==
  \E i \in DOMAIN caps[t] :
    /\ caps[t][i].pc = "captureVisibleTab"
    /\ Continue(t, i, Thrown(Store, t, caps[t][i], WrapScreenshotError(message),
                             time, ok), time)

\* downscaleDataUrl settles (lines 322-331): with the thumbnail, or, when it
\* fails or cannot draw, with the original data URL.
Downscaled(t, shrunk, time, ok) ==
  \E i \in DOMAIN caps[t] :
    /\ caps[t][i].pc = "downscale"
    /\ Continue(t, i,
         Save(Store, t, caps[t][i],
              IF shrunk THEN ThumbUrl ELSE caps[t][i].img, FALSE, time, ok),
         time)

\* chrome.storage.session.set settles (lines 405-406); when it rejects, it
\* rejects with `message`.
StorageSetDone(t, message, time, ok) ==
  \E i \in DOMAIN caps[t] :
    /\ caps[t][i].pc = "storage.set"
    /\ Continue(t, i,
         IF caps[t][i].rejects
         THEN Thrown(Store, t, caps[t][i], message, time, ok)
         ELSE AfterEvict(evictThumbnailsIfNeeded(Store, ok), caps[t][i], ok),
         time)

\* chrome.storage.session.remove settles inside the eviction loop (line 460);
\* when it rejects, it rejects with `message`.
StorageRemoveDone(t, message, time, ok) ==
  \E i \in DOMAIN caps[t] :
    /\ caps[t][i].pc = "storage.remove"
    /\ Continue(t, i,
         IF caps[t][i].rejects
         THEN Thrown(Store, t, caps[t][i], message, time, ok)
         ELSE AfterEvict(EvictLoop(Store, caps[t][i].snap, ok), caps[t][i], ok),
         time)

\* The catch block of notifyThumbUpdate, mutated: a rejected delivery
\* invalidates the entry the notification was about.
DeliverySkipped_invalidates(st, tabId, task) ==
  Finished(removeThumbnail(st, tabId, TRUE))

\* chrome.runtime.sendMessage rejects (no popup is listening): the catch
\* block of notifyThumbUpdate logs the error and the function returns
\* (lines 420-426); captureThumbnail goes on to its finally block.
DeliverySkipped(st, tabId, task) == Finished(st)

\* chrome.runtime.sendMessage resolves: the popup received thumb:update
\* (line 419) and captureThumbnail goes on to its finally block.
NotifyDelivered(t) ==
  \E i \in DOMAIN caps[t] :
    /\ caps[t][i].pc = "sendMessage"
    /\ Continue(t, i, Finished(Store), now)

\* chrome.runtime.sendMessage rejects (lines 420-426).
NotifyRejected(t) ==
  \E i \in DOMAIN caps[t] :
    /\ caps[t][i].pc = "sendMessage"
    /\ Continue(t, i, DeliverySkipped(Store, t, caps[t][i]), now)

\* chrome.runtime.sendMessage settles, delivered or not (lines 419-426).
NotifySettled(t) ==
  \/ NotifyDelivered(t)
  \/ NotifyRejected(t)

\* ------------------------------------------------------------ init, hydrate
Boot(pc, snap, rejects) == [pc |-> pc, snap |-> snap, rejects |-> rejects]

KeyOrders(S) ==
  {f \in [1..Cardinality(S) -> S] : \A i, j \in 1..Cardinality(S) : i # j => f[i] # f[j]}

\* The keys chrome.storage.session.get(null) returns from the content d.
KeysOf(d) == {k \in StorageKeys : d[k] # NoEntry}
StoredKeys == KeysOf(durable)

\* hydrate's eviction pass r ends or awaits a remove; init() then wires the listeners.
AfterHydrateEvict(r, ok) ==
  /\ SetStore(r.st)
  /\ boot' = IF r.awaiting THEN Boot("storage.remove", r.snap, ~ok)
             ELSE Boot("ready", << >>, FALSE)
  /\ faults' = IF r.awaiting /\ ~ok THEN faults + 1 ELSE faults

\* chrome.storage.session.get(null) resolves in hydrateThumbnailCache
\* (lines 430-447); Object.entries lists the keys in the order `keys`.
HydrateLoaded(keys, ok) ==
  /\ boot.pc = "storage.get"
  /\ keys \in KeyOrders(StoredKeys)
  /\ AfterHydrateEvict(evictThumbnailsIfNeeded(HydrateLoop(Store, keys, now), ok), ok)
  /\ UNCHANGED <<tabs, timers, armed, requested, inflight, caps, lookups, now>>

\* chrome.storage.session.remove settles in hydrate's eviction loop; when it
\* rejects, init() fails and no listener is ever wired.
HydrateRemoveDone(ok) ==
  /\ boot.pc = "storage.remove"
  /\ IF boot.rejects
     THEN /\ boot' = Boot("failed", << >>, FALSE)
          /\ UNCHANGED <<entries, totalBytes, durable, faults>>
     ELSE AfterHydrateEvict(EvictLoop(Store, boot.snap, ok), ok)
  /\ UNCHANGED <<tabs, timers, armed, requested, inflight, caps, lookups, now>>

\* The browser stops the service worker and starts it again: thumbnailState
\* is back to its initial value (lines 25-33), chrome.storage.session is kept.
Restart ==
  /\ boot.pc \in {"ready", "failed"}
  /\ boot' = Boot("storage.get", << >>, FALSE)
  /\ timers' = [t \in TabIds |-> NoTimer]
  /\ armed' = [t \in TabIds |-> << >>]
  /\ requested' = [t \in TabIds |-> NoRequest]
  /\ inflight' = {}
  /\ caps' = [t \in TabIds |-> << >>]
  /\ lookups' = {}
  /\ entries' = << >>
  /\ totalBytes' = 0
  /\ UNCHANGED <<tabs, durable, now, faults>>

\* ------------------------------------------------------- graph and page aside
\* graphState as the module creates it (lines 18-23): no tab, no timer.  With
\* it go the timeouts of the host that are set for a broadcast (`set`) and the
\* time left until the last of them is due, the time since the last tab event
\* arrived (`idle`, from GRAPH_BROADCAST_DELAY_MS on it stands still), the tab
\* events so far, the graph:update messages sent since a tab event last came
\* after a pause (`burst`), and the graph of the last message (`sent`).
NoGraph ==
  [tabs |-> << >>, broadcastTimer |-> Null, set |-> 0, left |-> 0, idle |-> 0,
   events |-> 0, burst |-> 0, sent |-> Null]

\* The state of the page as ui/tabgraph.js creates it (lines 32-54): an empty
\* graph, no thumbnail, nothing pending.  With it go the calls of
\* requestThumbnail and handleThumbUpdate that are suspended (`fetches`) and
\* the thumb:update messages on their way to the page (`inbox`).
NoPage ==
  [nodes |-> {}, thumbnails |-> [t \in TabIds |-> NoEntry], pendingThumbs |-> {},
   fetches |-> {}, inbox |-> {}]

\* The step leaves the tab graph and the page as they are: the specifications
\* of the thumbnail cache follow neither.
GraphIdle == UNCHANGED <<graph, page>>

Init ==
  /\ boot = Boot("storage.get", << >>, FALSE)
  /\ tabs = [t \in TabIds |-> NoTab]
  /\ timers = [t \in TabIds |-> NoTimer]
  /\ armed = [t \in TabIds |-> << >>]
  /\ requested = [t \in TabIds |-> NoRequest]
  /\ inflight = {}
  /\ caps = [t \in TabIds |-> << >>]
  /\ lookups = {}
  /\ entries = << >>
  /\ totalBytes = 0
  /\ durable = [k \in StorageKeys |-> NoEntry]
  /\ now = 0
  /\ faults = 0
  /\ graph = NoGraph
  /\ page = NoPage

\* How a chrome.storage.session call issued now can end (TRUE: it succeeds).
Outcomes == IF faults < MaxFailures THEN BOOLEAN ELSE {TRUE}

\* The cache under storage failures and service worker restarts: tabs open in
\* a window, finish loading and close.
Next ==
  \/ \E t \in FirstTabs, w \in WindowIds, a \in BOOLEAN : TabCreated(t, w, a) /\ GraphIdle
  \/ \E t \in TabIds : TabUpdated(t) /\ GraphIdle
  \/ \E t \in TabIds, ok \in Outcomes : TabRemoved(t, ok) /\ GraphIdle
  \/ \E t \in TabIds : TimerFire(t) /\ GraphIdle
  \/ \E t \in TabIds, m \in LookupErrors, time \in Clock, ok \in Outcomes :
       CaptureGetTab(t, m, time, ok) /\ GraphIdle
  \/ \E t \in TabIds, u \in ScreenshotUrls : ScreenshotTaken(t, u) /\ GraphIdle
  \/ \E t \in TabIds, time \in Clock, ok \in Outcomes : ScreenshotEmpty(t, time, ok) /\ GraphIdle
  \/ \E t \in TabIds, m \in ScreenshotErrors, time \in Clock, ok \in Outcomes :
       ScreenshotFailed(t, m, time, ok) /\ GraphIdle
  \/ \E t \in TabIds, shrunk \in BOOLEAN, time \in Clock, ok \in Outcomes :
       Downscaled(t, shrunk, time, ok) /\ GraphIdle
  \/ \E t \in TabIds, m \in StorageErrors, time \in Clock, ok \in Outcomes :
       StorageSetDone(t, m, time, ok) /\ GraphIdle
  \/ \E t \in TabIds, m \in StorageErrors, time \in Clock, ok \in Outcomes :
       StorageRemoveDone(t, m, time, ok) /\ GraphIdle
  \/ \E t \in TabIds : NotifySettled(t) /\ GraphIdle
  \/ \E keys \in KeyOrders(StoredKeys), ok \in Outcomes : HydrateLoaded(keys, ok) /\ GraphIdle
  \/ \E ok \in Outcomes : HydrateRemoveDone(ok) /\ GraphIdle
  \/ Restart /\ GraphIdle

Spec == Init /\ [][Next]_vars

\* The gate under every tab event (tabs are also activated, moved to another
\* window and replaced), with a storage that does not fail, no restart and a
\* clock that stands still.
GateNext ==
  \/ \E t \in FirstTabs, w \in WindowIds, a \in BOOLEAN : TabCreated(t, w, a) /\ GraphIdle
  \/ \E t \in TabIds : TabUpdated(t) /\ GraphIdle
  \/ \E t \in TabIds : TabActivated(t) /\ GraphIdle
  \/ \E t \in TabIds, w \in WindowIds : TabAttached(t, w) /\ GraphIdle
  \/ \E t \in TabIds : TabRemoved(t, TRUE) /\ GraphIdle
  \/ \E a, r \in FirstTabs : TabReplaced(a, r, TRUE) /\ GraphIdle
  \/ \E l \in lookups : LookupDone(l) /\ GraphIdle
  \/ \E t \in TabIds : TimerFire(t) /\ GraphIdle
  \/ \E t \in TabIds, m \in LookupErrors : CaptureGetTab(t, m, now, TRUE) /\ GraphIdle
  \/ \E t \in TabIds, u \in ScreenshotUrls : ScreenshotTaken(t, u) /\ GraphIdle
  \/ \E t \in TabIds : ScreenshotEmpty(t, now, TRUE) /\ GraphIdle
  \/ \E t \in TabIds, m \in ScreenshotErrors :
       ScreenshotFailed(t, m, now, TRUE) /\ GraphIdle
  \/ \E t \in TabIds, shrunk \in BOOLEAN : Downscaled(t, shrunk, now, TRUE) /\ GraphIdle
  \/ \E t \in TabIds : StorageSetDone(t, MsgQuota, now, TRUE) /\ GraphIdle
  \/ \E t \in TabIds : StorageRemoveDone(t, MsgQuota, now, TRUE) /\ GraphIdle
  \/ \E t \in TabIds : NotifySettled(t) /\ GraphIdle
  \/ HydrateLoaded(<< >>, TRUE) /\ GraphIdle

GateSpec == Init /\ [][GateNext]_vars

\* The host call the captureThumbnail call of t awaits settles, in any of the
\* ways it can, the clock standing still.
Resume(t) ==
  \/ \E m \in LookupErrors, ok \in Outcomes : CaptureGetTab(t, m, now, ok)
  \/ \E u \in ScreenshotUrls : ScreenshotTaken(t, u)
  \/ \E ok \in Outcomes : ScreenshotEmpty(t, now, ok)
  \/ \E m \in ScreenshotErrors, ok \in Outcomes : ScreenshotFailed(t, m, now, ok)
  \/ \E shrunk \in BOOLEAN, ok \in Outcomes : Downscaled(t, shrunk, now, ok)
  \/ \E m \in StorageErrors, ok \in Outcomes : StorageSetDone(t, m, now, ok)
  \/ \E m \in StorageErrors, ok \in Outcomes : StorageRemoveDone(t, m, now, ok)
  \/ NotifySettled(t)

\* The tab opened last: the one that stays the active tab of the window.
LastTab == CHOOSE t \in FirstTabs : \A u \in FirstTabs : u <= t

\* The captures of tabs that open one after the other as the active tab of
\* one window, the last of which finishes loading again and again, under
\* storage failures, with no restart and a clock that stands still.
LiveNext ==
  \/ \E t \in FirstTabs : TabCreated(t, 1, TRUE) /\ GraphIdle
  \/ TabUpdated(LastTab) /\ GraphIdle
  \/ \E t \in TabIds : TimerFire(t) /\ GraphIdle
  \/ \E t \in TabIds, m \in LookupErrors, ok \in Outcomes : CaptureGetTab(t, m, now, ok) /\ GraphIdle
  \/ \E t \in TabIds, u \in ScreenshotUrls : ScreenshotTaken(t, u) /\ GraphIdle
  \/ \E t \in TabIds, ok \in Outcomes : ScreenshotEmpty(t, now, ok) /\ GraphIdle
  \/ \E t \in TabIds, m \in ScreenshotErrors, ok \in Outcomes :
       ScreenshotFailed(t, m, now, ok) /\ GraphIdle
  \/ \E t \in TabIds, shrunk \in BOOLEAN, ok \in Outcomes : Downscaled(t, shrunk, now, ok) /\ GraphIdle
  \/ \E t \in TabIds, m \in StorageErrors, ok \in Outcomes : StorageSetDone(t, m, now, ok) /\ GraphIdle
  \/ \E t \in TabIds, m \in StorageErrors, ok \in Outcomes :
       StorageRemoveDone(t, m, now, ok) /\ GraphIdle
  \/ \E t \in TabIds : NotifySettled(t) /\ GraphIdle
  \/ HydrateLoaded(<< >>, TRUE) /\ GraphIdle

\* LiveNext under the condition that every host call a captureThumbnail call
\* awaits settles in the end.
LiveSpec == Init /\ [][LiveNext]_vars /\ \A t \in TabIds : WF_vars(Resume(t) /\ GraphIdle)

\* ------------------------------------------------- the store, one call at a time
\* The body of the 'thumb:get' case of the message listener (lines 145-155):
\* the response for tabId over the entries map `m`.
ThumbGet(m, tabId) ==
  LET entry == MapGet(m, tabId)
  IN  [found |-> entry # NoEntry /\ ~entry.blocked,
       blocked |-> entry # NoEntry /\ entry.blocked,
       storageKey |-> IF entry # NoEntry THEN [prefix |-> "thumb_", tabId |-> tabId]
                      ELSE Null,
       lastUpdated |-> IF entry # NoEntry THEN entry.lastUpdated ELSE Null]

\* An eviction pass r run to its end, every chrome.storage.session.remove
\* succeeding (lines 456-461).
RECURSIVE FinishPass(_)
FinishPass(r) == IF r.awaiting THEN FinishPass(EvictLoop(r.st, r.snap, TRUE)) ELSE r.st

\* saveThumbnail run to its end, the storage succeeding (lines 394-407).
saveThumbnailDone(st, tabId, dataUrl, blocked, lastUpdated) ==
  FinishPass(evictThumbnailsIfNeeded(
    saveThumbnail(st, tabId, dataUrl, blocked, lastUpdated, TRUE), TRUE))

\* hydrateThumbnailCache run to its end over the memory and the storage of st
\* (lines 429-448), Object.entries listing the keys in the order `keys`.
hydrateThumbnailCacheDone(st, keys, time) ==
  FinishPass(evictThumbnailsIfNeeded(HydrateLoop(st, keys, time), TRUE))

\* The images a caller hands to saveThumbnail: a thumbnail, a screenshot left
\* at full resolution, one that alone exceeds the byte budget, and one whose
\* payload ends in padding ("QQ==", one byte).
StoreImages == {ThumbUrl, DataUrl(8), DataUrl(12), Base64Url(4, 2)}

\* What hydrate can find under a thumbnail key: an object whose fields are of
\* the expected type or not (lines 433, 437-443).
StoredRecords ==
  [dataUrl : {Null, ThumbUrl}, blocked : BOOLEAN,
   lastUpdated : {NotANumber, 0, 1}, bytes : {NotANumber, 3, 9}]

\* What chrome.storage.session can hold under a key.
StoredValues == StoredRecords \cup {NotAnObject}
\* What it holds under the key that names no tab: nothing, or a record that
\* would be a thumbnail under a thumbnail key.
ForeignValues ==
  {NoEntry, [dataUrl |-> ThumbUrl, blocked |-> FALSE, lastUpdated |-> 0, bytes |-> 3]}

\* A caller awaits saveThumbnail(t, {dataUrl, blocked}) (lines 332, 340) and
\* nothing else runs until it returns; Date.now() returns `time`.
StorePut(t, dataUrl, blocked, time) ==
  /\ Ready
  /\ time \in Clock
  /\ SetStore(saveThumbnailDone(Store, t, dataUrl, blocked, time))
  /\ now' = time
  /\ UNCHANGED <<boot, tabs, timers, armed, requested, inflight, caps, lookups, faults>>

\* A caller awaits removeThumbnail(t) (lines 86, 120).
StoreRemove(t) ==
  /\ Ready
  /\ SetStore(removeThumbnail(Store, t, TRUE))
  /\ UNCHANGED <<boot, tabs, timers, armed, requested, inflight, caps, lookups, now,
                 faults>>

\* The service worker starts, at any time, over a chrome.storage.session that
\* holds any records under the thumbnail keys.
StoreInit ==
  /\ boot = Boot("storage.get", << >>, FALSE)
  /\ tabs = [t \in TabIds |-> NoTab]
  /\ timers = [t \in TabIds |-> NoTimer]
  /\ armed = [t \in TabIds |-> << >>]
  /\ requested = [t \in TabIds |-> NoRequest]
  /\ inflight = {}
  /\ caps = [t \in TabIds |-> << >>]
  /\ lookups = {}
  /\ entries = << >>
  /\ totalBytes = 0
  /\ \E d \in [FirstTabs -> StoredValues \cup {NoEntry}], f \in ForeignValues :
       durable = [k \in StorageKeys |->
                    IF k = ForeignKey THEN f ELSE IF k \in FirstTabs THEN d[k] ELSE NoEntry]
  /\ now \in 0..MaxTime
  /\ faults = 0
  /\ graph = NoGraph
  /\ page = NoPage

\* The store hydrated from any snapshot, then called one operation at a time
\* with a storage that does not fail.
StoreNext ==
  \/ \E keys \in KeyOrders(StoredKeys) : HydrateLoaded(keys, TRUE) /\ GraphIdle
  \/ HydrateRemoveDone(TRUE) /\ GraphIdle
  \/ \E t \in FirstTabs, u \in StoreImages, time \in Clock : StorePut(t, u, FALSE, time) /\ GraphIdle
  \/ \E t \in FirstTabs, time \in Clock : StorePut(t, Null, TRUE, time) /\ GraphIdle
  \/ \E t \in TabIds : StoreRemove(t) /\ GraphIdle

StoreSpec == StoreInit /\ [][StoreNext]_vars

\* Three tabs open as active tabs, the second in a window of its own, and are
\* captured again whenever they finish loading, under a clock that advances
\* and a storage that does not fail, with no restart: puts of several tabs
\* interleave with the eviction pass of another put.
LruNext ==
  \/ \E t \in TabIds : TabCreated(t, IF t = 2 THEN 2 ELSE 1, TRUE) /\ GraphIdle
  \/ \E t \in TabIds : TabUpdated(t) /\ GraphIdle
  \/ \E t \in TabIds : TimerFire(t) /\ GraphIdle
  \/ \E t \in TabIds : CaptureGetTab(t, MsgNoTab, now, TRUE) /\ GraphIdle
  \/ \E t \in TabIds : ScreenshotTaken(t, DataUrl(8)) /\ GraphIdle
  \/ \E t \in TabIds, time \in Clock : Downscaled(t, TRUE, time, TRUE) /\ GraphIdle
  \/ \E t \in TabIds : StorageSetDone(t, MsgQuota, now, TRUE) /\ GraphIdle
  \/ \E t \in TabIds : StorageRemoveDone(t, MsgQuota, now, TRUE) /\ GraphIdle
  \/ \E t \in TabIds : NotifySettled(t) /\ GraphIdle
  \/ HydrateLoaded(<< >>, TRUE) /\ GraphIdle

LruSpec == Init /\ [][LruNext]_vars

\* ===================================================================== claims

\* A put or an eviction pass of a captureThumbnail call is suspended.
PutSuspended ==
  \E t \in TabIds : \E i \in DOMAIN caps[t] :
    caps[t][i].pc \in {"storage.set", "storage.remove"}

\* C1: once every put and remove has completed, its eviction pass included
\* (the listeners are wired and no saveThumbnail is suspended), the number of
\* entries is at most THUMB_MAX_ENTRIES and totalBytes at most
\* THUMB_MAX_TOTAL_BYTES.
C1_WithinBoundsAfterEachOperation ==
  (Ready /\ ~PutSuspended) => WithinBounds(Store)

\* C2: at no point where another task may run is the store over budget: no
\* suspension point separates a put's in-memory update from its eviction.
C2_NeverObservedOverBudget ==
  Ready => WithinBounds(Store)

\* C3: at most one captureThumbnail body per tab id is executing at any time,
\* and the in-flight slot is held exactly while one is.
C3_SingleFlight ==
  \A t \in TabIds :
    /\ Len(caps[t]) <= 1
    /\ t \in inflight <=> caps[t] # << >>

\* A capture is executing for every tab that opens at once, one body each.
C3_Witness ==
  \A t \in FirstTabs : Len(caps[t]) = 1 /\ t \in inflight

\* While a request for t waits for its timer, exactly one timeout is set for
\* t: the one registered in the timers map, set for CAPTURE_DEBOUNCE_MS with
\* the windowId and reason of the last request.  Without a request none is set.
OneTimerOfLastRequest ==
  \A t \in TabIds :
    IF requested[t] = NoRequest
    THEN armed[t] = << >> /\ timers[t] = NoTimer
    ELSE /\ armed[t] = <<timers[t]>>
         /\ timers[t] = [timer |-> TRUE, windowId |-> requested[t].windowId,
                         reason |-> requested[t].reason, delay |-> 200]

\* A step that invokes captureThumbnail for t invokes it once, with the
\* windowId and reason of the last request, and ends the burst.
InvokesLastRequest ==
  \A t \in TabIds :
    Len(caps'[t]) > Len(caps[t]) =>
      /\ requested[t] # NoRequest
      /\ requested'[t] = NoRequest
      /\ caps'[t] = Append(caps[t], Task("tabs.get", requested[t].windowId,
                                         requested[t].reason, Null, FALSE, << >>, FALSE))

\* C4: of the requests for one tab id made before the timer fires (none while
\* a capture is in flight) every one but the last has its timer cancelled:
\* exactly one capture is invoked, by the timer set for 200 ms at the last
\* request, with the windowId and reason of the last request.
C4_DebounceKeepsLastRequest ==
  [](OneTimerOfLastRequest) /\ [][InvokesLastRequest]_vars

\* A request that came while an earlier request for the same tab was waiting
\* for its timer is itself waiting.
C4_Witness ==
  \E t \in TabIds : requested[t] # NoRequest /\ requested[t].superseding

\* A step in which an eviction pass of the running worker removes an entry.
EvictionStep ==
  /\ Len(entries') < Len(entries)
  /\ tabs' = tabs
  /\ boot'.pc # "storage.get"

\* The entry an eviction step removes is the least recently updated one.
RemovesOldest ==
  \A i \in 1..Len(entries) :
    ~MapHas(entries', entries[i][1]) =>
      \A j \in 1..Len(entries) : SortKey(entries[i][2]) <= SortKey(entries[j][2])

\* A step in which the eviction pass of the put of t runs to its end: the
\* call goes on to notify.
PassCompletes(t) ==
  /\ caps[t] # << >>
  /\ caps[t][1].pc \in {"storage.set", "storage.remove"}
  /\ caps'[t] # << >>
  /\ caps'[t][1].pc = "sendMessage"

C6_NoEntryForClosedTab ==
  \A t \in TabIds :
    (/\ tabs[t].status = "closed"
     /\ caps[t] = << >>
     /\ armed[t] = << >>
     /\ \A l \in lookups : l.tabId # t)
    => (~MapHas(entries, t) /\ durable[t] = NoEntry)

\* The entry a blocked write leaves for t.
BlockedEntryWritten(t) ==
  /\ MapHas(entries', t)
  /\ MapGet(entries', t).blocked
  /\ MapGet(entries', t).dataUrl = Null
  /\ MapGet(entries', t).bytes = 0
  /\ caps'[t] # << >>
  /\ caps'[t][1].inCatch

\* A call of t that is writing a blocked entry goes on to send thumb:update
\* with reason "blocked", once, and then ends.
BlockedIsNotified(t) ==
  /\ (caps[t] # << >> /\ caps[t][1].inCatch /\ caps[t][1].pc # "sendMessage"
      /\ caps'[t] # caps[t] /\ boot'.pc = "ready")
     => (/\ caps'[t] # << >>
         /\ caps'[t][1].inCatch
         /\ caps'[t][1].pc = "sendMessage" => caps'[t][1].reason = "blocked")
  /\ (caps[t] # << >> /\ caps[t][1].inCatch /\ caps[t][1].pc = "sendMessage"
      /\ caps'[t] # caps[t] /\ boot'.pc = "ready")
     => caps'[t] = << >>

\* C7: a capture whose screenshot call fails with a capture-forbidden message
\* leaves for its tab an entry with blocked = TRUE, no image and bytes = 0 in
\* place of any previous one, and then sends exactly one thumb:update with
\* reason "blocked".
C7_ForbiddenCaptureIsMarkedAndNotified ==
  [][\A t \in TabIds :
       /\ (\E time \in 0..MaxTime, ok \in BOOLEAN :
             ScreenshotFailed(t, MsgPermissionDenied, time, ok))
          => BlockedEntryWritten(t)
       /\ BlockedIsNotified(t)]_vars

\* A screenshot failure of t that is not capture-forbidden: a transient error,
\* an error without a message, or an empty result.
OtherFailure(t) ==
  \E time \in 0..MaxTime, ok \in BOOLEAN :
    \/ ScreenshotFailed(t, MsgNetworkTimeout, time, ok)
    \/ ScreenshotFailed(t, MsgNone, time, ok)
    \/ ScreenshotEmpty(t, time, ok)

\* C8: a capture that fails for any reason other than capture-forbidden
\* writes no entry and sends no notification: the store is as before, the
\* call is over and its in-flight slot free for a later request.
C8_OtherFailuresLeaveNoTrace ==
  [][\A t \in TabIds :
       OtherFailure(t) =>
         /\ UNCHANGED <<entries, totalBytes, durable>>
         /\ caps'[t] = << >>
         /\ t \notin inflight']_vars

\* C9: every entry with blocked = TRUE has no image and bytes = 0, in every
\* reachable state, also after hydration from any chrome.storage.session
\* content.
C9_BlockedHasNoImage ==
  \A i \in 1..Len(entries) :
    entries[i][2].blocked => (entries[i][2].dataUrl = Null /\ entries[i][2].bytes = 0)

\* A step in which the entry of t is replaced and no other entry changes.
PutOnExisting(t) ==
  /\ MapHas(entries, t)
  /\ MapHas(entries', t)
  /\ entries' = MapSet(entries, t, MapGet(entries', t))

\* C10: at every suspension point totalBytes is the sum of bytes over the
\* entries, and a put on a tab that has an entry changes totalBytes by the
\* new bytes minus the old.
C10_TotalBytesIsSum ==
  /\ [](totalBytes = SumBytes(entries))
  /\ [][\A t \in TabIds :
          PutOnExisting(t) =>
            totalBytes' - totalBytes
              = MapGet(entries', t).bytes - MapGet(entries, t).bytes]_vars

\* A put replaced the entry of an open tab by one of another size (its
\* chrome.storage.session.set failed, so the stored record is still the old one).
C10_Witness ==
  \E t \in TabIds :
    /\ IsOpen(t)
    /\ MapHas(entries, t)
    /\ durable[t] # NoEntry
    /\ durable[t].bytes # MapGet(entries, t).bytes

\* The entry of t right after the put StorePut(t, u, FALSE, time) is the one
\* the put wrote.
PutIsRead(t, u, time) ==
  /\ MapHas(entries', t)
  /\ ~MapGet(entries', t).blocked
  /\ MapGet(entries', t).dataUrl = u
  /\ MapGet(entries', t).lastUpdated = time
  /\ MapGet(entries', t).bytes = estimateDataUrlBytes(u)

\* C11: for every store state and every image, once put(t, {image, blocked
\* false, T}) has completed, get(t) returns an entry with blocked false,
\* lastUpdated T and the bytes computed from that image.
C11_PutThenGet ==
  [][\A t \in TabIds, u \in StoreImages, time \in Clock :
       StorePut(t, u, FALSE, time) => PutIsRead(t, u, time)]_vars

\* The response to 'thumb:get' for a tab without an entry.
NotFound == [found |-> FALSE, blocked |-> FALSE, storageKey |-> Null, lastUpdated |-> Null]

\* C12: once the message listener is wired (hydration included), the
\* thumb:get response for t has found true only when the index holds a
\* non-blocked entry with image data for t, never has found and blocked both
\* true, and is {found false, blocked false, storageKey null, lastUpdated
\* null} when there is no entry.
C12_ThumbGetResponse ==
  Ready =>
    \A t \in TabIds :
      /\ ThumbGet(entries, t).found =>
           /\ MapHas(entries, t)
           /\ ~MapGet(entries, t).blocked
           /\ MapGet(entries, t).dataUrl # Null
      /\ ~(ThumbGet(entries, t).found /\ ThumbGet(entries, t).blocked)
      /\ ~MapHas(entries, t) => ThumbGet(entries, t) = NotFound

\* hydrateThumbnailCache returns in this step.
HydrateCompletes == boot.pc # "ready" /\ boot'.pc = "ready"

\* The store as hydrate leaves it.
Hydrated == [entries |-> entries', totalBytes |-> totalBytes', durable |-> durable']

\* C13: hydrate run a second time right after the first, over the same
\* chrome.storage.session content, leaves entries and totalBytes as the first
\* run left them and evicts nothing.
C13_HydrateTwice ==
  [][HydrateCompletes =>
       \A keys \in KeyOrders(KeysOf(durable')) :
         /\ hydrateThumbnailCacheDone(Hydrated, keys, now').entries = entries'
         /\ hydrateThumbnailCacheDone(Hydrated, keys, now').totalBytes = totalBytes'
         /\ hydrateThumbnailCacheDone(Hydrated, keys, now').durable = durable'
         /\ WithinBounds(HydrateLoop(Hydrated, keys, now'))]_vars

\* The call of t sends thumb:update in this step.
Sends(t) ==
  /\ caps'[t] # << >>
  /\ caps'[t][1].pc = "sendMessage"
  /\ ~(caps[t] # << >> /\ caps[t][1].pc = "sendMessage")

\* The last chrome.storage.session call of a put of the call of t resolves in
\* this step, and the call was suspended in nothing else.
PutReturns(t) ==
  /\ caps[t] # << >>
  /\ caps[t][1].pc \in {"storage.set", "storage.remove"}
  /\ ~caps[t][1].rejects

\* The lookup of the call of t finds the tab gone or not active.
SilentAbort(t) ==
  /\ caps[t] # << >>
  /\ caps[t][1].pc = "tabs.get"
  /\ ~IsOpen(t) \/ ~tabs[t].active
  /\ caps'[t] # caps[t]

\* A thumb:update is sent only when a put of the same call has returned.
SendsAfterPut == [][\A t \in TabIds : Sends(t) => PutReturns(t)]_vars

\* A call that has sent its thumb:update ends without sending another.
SendsOnce ==
  [][\A t \in TabIds :
       (caps[t] # << >> /\ caps[t][1].pc = "sendMessage" /\ caps'[t] # caps[t]
        /\ boot'.pc = "ready")
         => caps'[t] = << >>]_vars

\* A call that aborts at its lookup, or whose screenshot fails without being
\* forbidden, ends there.
NoSendWithoutPut ==
  [][\A t \in TabIds :
       ((SilentAbort(t) \/ OtherFailure(t)) /\ boot'.pc = "ready")
         => caps'[t] = << >>]_vars

\* C14: a thumb:update for t is sent only after a put for t by the same
\* capture attempt has completed; an attempt that ends in a silent abort or a
\* transient failure sends none; an attempt sends at most one.
C14_NotifyOnlyAfterPut == SendsAfterPut /\ SendsOnce /\ NoSendWithoutPut

\* The entry of t is written or replaced in this step.
Updated(t) ==
  /\ boot.pc = "ready" /\ boot'.pc = "ready"
  /\ MapHas(entries', t)
  /\ MapGet(entries', t) # MapGet(entries, t)

\* The entry of t is removed in this step (tab closed or replaced, eviction).
Invalidated(t) ==
  /\ boot.pc = "ready" /\ boot'.pc = "ready"
  /\ MapHas(entries, t)
  /\ ~MapHas(entries', t)

\* A captureThumbnail call of t is on its way to notifyThumbUpdate(t, ...):
\* the only code that sends thumb:update (lines 332, 341, 417-427).
Notifying(t) ==
  /\ caps[t] # << >>
  /\ caps[t][1].pc \in {"storage.set", "storage.remove", "sendMessage"}

\* An update of the entry of t is followed by a thumb:update for t.
UpdatesAreNotified == [][\A t \in TabIds : Updated(t) => Notifying(t)']_vars

\* An invalidation of the entry of t is followed by a thumb:update for t.
InvalidationsAreNotified == [][\A t \in TabIds : Invalidated(t) => Notifying(t)']_vars

\* C15: whenever an entry changes the observers are told: each update and
\* each invalidation of the entry of t (tab closed or replaced, eviction) is
\* followed by a thumb:update for t, that is, the step is taken by or leaves
\* behind a call that goes on to send it.
C15_ChangesAreNotified == UpdatesAreNotified /\ InvalidationsAreNotified

\* The lookup of the call of t answers, and the tab is open but not the
\* active tab of its window.
FindsInactive(t) ==
  /\ boot.pc = "ready" /\ boot'.pc = "ready"
  /\ caps[t] # << >>
  /\ caps[t][1].pc = "tabs.get"
  /\ IsOpen(t)
  /\ ~tabs[t].active
  /\ caps'[t] # caps[t]

\* C16: when the timer of t has fired and the lookup it starts finds the tab
\* not active, whether or not the tab was active when the capture was
\* requested, the attempt requests no screenshot, writes or changes no entry,
\* sends no notification and releases the in-flight slot.
C16_InactiveTabIsNotCaptured ==
  [][\A t \in TabIds :
       FindsInactive(t) =>
         /\ caps'[t] = << >>
         /\ t \notin inflight'
         /\ UNCHANGED <<entries, totalBytes, durable>>]_vars

\* The timer of a capture requested for an active tab has fired, and the tab
\* is no longer active when the lookup is about to answer.
C16_Witness ==
  \E t \in TabIds :
    /\ Ready
    /\ caps[t] # << >>
    /\ caps[t][1].pc = "tabs.get"
    /\ caps[t][1].reason = "created-active"
    /\ IsOpen(t)
    /\ ~tabs[t].active

\* The lookup of the call of t rejects: the tab is gone.
LookupFails(t) ==
  /\ boot.pc = "ready" /\ boot'.pc = "ready"
  /\ caps[t] # << >>
  /\ caps[t][1].pc = "tabs.get"
  /\ ~IsOpen(t)
  /\ caps'[t] # caps[t]

\* The call of t ends in this step, the store is as before and nothing has
\* been sent.
AbortsSilently(t) ==
  /\ caps'[t] = << >>
  /\ t \notin inflight'
  /\ UNCHANGED <<entries, totalBytes, durable>>

\* C17: when the timer of t has fired and the lookup fails because the tab
\* no longer exists, the attempt aborts silently, whatever the text of the
\* failure: no entry is written for t and no notification is sent.
C17_MissingTabAbortsSilently ==
  [][\A t \in TabIds : LookupFails(t) => AbortsSilently(t)]_vars

\* The same for the one text the browser is known to use, "No tab with id".
MissingTabAbortsOnNoTab ==
  [][\A t \in TabIds :
       (LookupFails(t) /\ CaptureGetTab(t, MsgNoTab, now, TRUE)) => AbortsSilently(t)]_vars

\* A handler calls scheduleThumbnailCapture for t in this step: onUpdated, or
\* the continuation of onActivated or onReplaced.
RequestArrives(t) ==
  \/ TabUpdated(t)
  \/ \E l \in lookups :
       /\ l.tabId = t
       /\ IsOpen(t)
       /\ l.kind = "activated" \/ tabs[t].active
       /\ LookupDone(l)

\* While a capture of t is in flight no timer is set for t and no request is
\* waiting.
NothingQueued ==
  \A t \in TabIds :
    t \in inflight =>
      (timers[t] = NoTimer /\ armed[t] = << >> /\ requested[t] = NoRequest)

\* A request for a tab with a capture in flight changes nothing.
RequestIsDropped ==
  \A t \in TabIds :
    (t \in inflight /\ RequestArrives(t)) =>
      UNCHANGED <<timers, armed, requested, inflight, caps, entries, totalBytes>>

\* A capture starts only by the timer of a request, and when a flight ends
\* nothing is pending for the tab.
NoCaptureWithoutRequest ==
  \A t \in TabIds :
    /\ (t \notin inflight /\ t \in inflight') => Len(armed'[t]) < Len(armed[t])
    /\ (t \in inflight /\ t \notin inflight') => (timers'[t] = NoTimer /\ armed'[t] = << >>)

\* C18: a capture request that arrives while a capture of the same tab is in
\* flight is dropped, not queued: it arms no timer and leaves timers, the
\* in-flight set, entries and totalBytes unchanged, and when the flight ends
\* no capture starts for the tab until a new request arrives.
C18_RequestInFlightIsDropped ==
  [](NothingQueued) /\ [][RequestIsDropped /\ NoCaptureWithoutRequest]_vars

\* A capture of an open, active tab is in flight while the continuation of
\* onActivated is about to request a capture of it; onUpdated requests one in
\* this state as well, and leaves this state.
C18_Witness ==
  \E t \in TabIds :
    /\ Ready
    /\ t \in inflight
    /\ IsOpen(t)
    /\ tabs[t].active
    /\ [kind |-> "activated", tabId |-> t] \in lookups

\* A request for a tab without a capture in flight is accepted: its timer is set.
RequestIsAccepted ==
  \A t \in TabIds :
    (t \notin inflight /\ RequestArrives(t)) =>
      (timers'[t] # NoTimer /\ armed'[t] = <<timers'[t]>>)

\* C19: provided every host call settles, a tab id added to the in-flight set
\* is removed from it in the end on every path (success, silent abort,
\* blocked, transient failure, failed durable write), and requests for the
\* tab are then accepted again.
C19_InflightIsReleased ==
  /\ \A t \in TabIds : (t \in inflight) ~> (t \notin inflight)
  /\ [][RequestIsAccepted]_vars

\* A call that has caught a failed durable write in its try block has ended
\* and its slot is free: the tab's entry is the one whose write failed.
C19_Witness ==
  \E t \in TabIds :
    /\ Ready
    /\ faults > 0
    /\ t \notin inflight
    /\ MapHas(entries, t)
    /\ ~MapGet(entries, t).blocked
    /\ durable[t] = NoEntry

\* The chrome.storage.session.set of the put that the call of t made for its
\* screenshot rejects in this step.
WriteFails(t) ==
  /\ boot.pc = "ready" /\ boot'.pc = "ready"
  /\ caps[t] # << >>
  /\ caps[t][1].pc = "storage.set"
  /\ caps[t][1].rejects
  /\ ~caps[t][1].inCatch
  /\ caps'[t] # caps[t]

\* The failure leaves the index as the put wrote it: no entry is replaced by
\* a blocked marker or removed.
EntryStays(t) ==
  /\ entries' = entries
  /\ totalBytes' = totalBytes
  /\ MapHas(entries, t) => ~MapGet(entries', t).blocked

\* C20: when the durable write of the put made for a successful capture of t
\* fails, the failure is swallowed and the in-memory entry stays correct: get
\* still returns the captured, non-blocked entry; the failure never causes
\* the entry to be replaced by a blocked marker or removed.
C20_FailedWriteKeepsEntry ==
  [][\A t \in TabIds : WriteFails(t) => EntryStays(t)]_vars

\* The same for a rejection whose text is "quota bytes exceeded".
FailedWriteKeepsEntryOnQuota ==
  [][\A t \in TabIds :
       (WriteFails(t) /\ \E time \in Clock, ok \in BOOLEAN :
                           StorageSetDone(t, MsgQuota, time, ok))
         => EntryStays(t)]_vars

\* The put of the call of t ends in this step on a rejected
\* chrome.storage.session.set or remove, and the call with it.
FailedPutEnds(t) ==
  /\ boot.pc = "ready" /\ boot'.pc = "ready"
  /\ caps[t] # << >>
  /\ caps[t][1].pc \in {"storage.set", "storage.remove"}
  /\ caps[t][1].rejects
  /\ caps'[t] = << >>

\* C21: a failing durable write or delete does not break the capacity bounds:
\* when a put whose chrome.storage.session.set failed, or whose eviction hit
\* a failing chrome.storage.session.remove, has finished (and no other put is
\* under way), the entries are at most THUMB_MAX_ENTRIES and totalBytes at
\* most THUMB_MAX_TOTAL_BYTES.
C21_FailedWriteKeepsBounds ==
  [][\A t \in TabIds :
       (FailedPutEnds(t) /\ ~PutSuspended') => WithinBounds(Store')]_vars

\* A stored value that is a well-formed thumbnail record: an object with an
\* image or the blocked mark, and a numeric lastUpdated.
WellFormed(value) ==
  /\ value # NoEntry
  /\ value # NotAnObject
  /\ value.dataUrl # Null \/ value.blocked
  /\ value.lastUpdated # NotANumber

\* chrome.storage.session.get(null) resolves in hydrate in this step.
HydrateLoads == boot.pc = "storage.get" /\ boot'.pc # "storage.get"

\* The entries the loop of hydrate builds from the storage content, before
\* its eviction pass.
Loaded(keys) == HydrateLoop(Store, keys, now).entries

\* C22: hydration skips each malformed or unexpected record by itself and
\* goes on with the rest: the loop leaves an entry for exactly the well-formed
\* thumbnail records; a wrong key, a value that is no object, and an object
\* without valid image / blocked / timestamp fields yield no entry.
C22_HydrateSkipsMalformed ==
  [][HydrateLoads =>
       \A keys \in KeyOrders(StoredKeys) : \A k \in StorageKeys :
         MapHas(Loaded(keys), k) <=> (k \in TabIds /\ WellFormed(durable[k]))]_vars

\* The part of it the loop does: a wrong key and a value that is no object
\* yield no entry, and every object under a thumbnail key yields one.
HydrateSkipsNonRecords ==
  [][HydrateLoads =>
       \A keys \in KeyOrders(StoredKeys) : \A k \in StorageKeys :
         MapHas(Loaded(keys), k)
           <=> (k \in TabIds /\ durable[k] # NoEntry /\ durable[k] # NotAnObject)]_vars

\* ------------------------------------------------------------------ C23
\* The capture of t ends in this step: its call is gone and its slot is free.
CaptureEnds(t) == caps'[t] = << >> /\ t \notin inflight'

\* C23: a thumb:update notification that cannot be delivered never affects
\* the capture that sent it: the step in which the delivery of the
\* notification of tab t fails leaves the index, the byte counter and the
\* durable store as they are, ends the capture and frees its in-flight slot,
\* arms no timer and queues no request (the notification is not retried), and
\* leaves the program in the very state a successful delivery leaves it in.
C23_FailedDeliveryIsHarmless ==
  [][\A t \in TabIds :
       NotifyRejected(t) =>
         /\ entries' = entries /\ totalBytes' = totalBytes /\ durable' = durable
         /\ CaptureEnds(t)
         /\ UNCHANGED <<timers, armed, requested, lookups>>
         /\ NotifyDelivered(t)]_vars

\* A notification of a stored image is being delivered.
C23_Witness ==
  \E t \in TabIds :
    /\ caps[t] # << >> /\ caps[t][1].pc = "sendMessage"
    /\ MapHas(entries, t) /\ MapGet(entries, t).dataUrl # Null
    /\ t \in inflight

\* ------------------------------------------------------------------ C24
\* The tab ids that have an entry in the index m.
Indexed(m) == {k \in TabIds : MapHas(m, k)}

\* `after` is what an eviction pass makes of `before`: the entries that remain
\* are entries of `before`, unchanged; no entry that went was newer than one
\* that remains; the chrome.storage.session record of each entry that went is
\* deleted and the other records are as they were.
EvictedOldest(before, after) ==
  /\ Indexed(after.entries) \subseteq Indexed(before.entries)
  /\ \A k \in Indexed(after.entries) :
       MapGet(after.entries, k) = MapGet(before.entries, k)
  /\ \A e \in Indexed(before.entries) \ Indexed(after.entries) :
       /\ after.durable[e] = NoEntry
       /\ \A k \in Indexed(after.entries) :
            MapGet(before.entries, e).lastUpdated <= MapGet(before.entries, k).lastUpdated
  /\ \A k \in StorageKeys :
       k \notin Indexed(before.entries) \ Indexed(after.entries) =>
         after.durable[k] = before.durable[k]

\* C24: hydrate run to its end on any content of chrome.storage.session, also
\* one with more entries or more bytes than the ceilings allow, leaves the
\* index with the entries built from the content minus the oldest ones,
\* totalBytes equal to the sum of their bytes, both bounds respected and the
\* chrome.storage.session records of the evicted entries deleted; and that
\* is the state the program is in when init() goes on after hydrate.
C24_HydrateEvictsToBounds ==
  [][/\ HydrateLoads =>
          \A keys \in KeyOrders(StoredKeys) :
            LET loaded == HydrateLoop(Store, keys, now)
                done == hydrateThumbnailCacheDone(Store, keys, now)
            IN  /\ EvictedOldest(loaded, done)
                /\ done.totalBytes = SumBytes(done.entries)
                /\ WithinBounds(done)
     /\ HydrateCompletes =>
          /\ WithinBounds(Hydrated)
          /\ totalBytes' = SumBytes(entries')
          /\ \A k \in TabIds : MapHas(entries', k) <=> durable'[k] \notin {NoEntry, NotAnObject}
    ]_vars

\* hydrate found more than the ceilings allow: its eviction pass awaits the
\* deletion of an evicted record while a newer entry remains.
C24_Witness ==
  /\ boot.pc = "storage.remove"
  /\ entries # << >>
  /\ \E k \in TabIds : ~MapHas(entries, k) /\ durable[k] = NoEntry

\* ------------------------------------------------------------------ C25
\* Every chrome.storage.session call the store has issued has settled.
StorageIdle == Ready /\ ~PutSuspended

\* chrome.storage.session holds the index: a record under the key of each
\* entry, equal to the entry, and nothing else.
DurableEqualsMemory ==
  \A k \in StorageKeys :
    durable[k] = IF k \in TabIds THEN MapGet(entries, k) ELSE NoEntry

\* C25: when no chrome.storage.session call fails and every call issued has
\* settled, chrome.storage.session holds exactly the entries of the index,
\* field by field, whatever the interleaving of puts, removes and eviction
\* passes was, a tab closed while its own put is suspended included.
C25_DurableEqualsMemory == StorageIdle => DurableEqualsMemory

\* Every call has settled and an entry is stored.
C25_Witness == StorageIdle /\ entries # << >> /\ \E t \in TabIds : tabs[t] = ClosedTab

\* ------------------------------------------------------------------ C26
\* The capture attempt of t ends in this step, whatever its outcome.
AttemptEnds(t) == t \in inflight /\ t \notin inflight'

\* A capture attempt of t starts in this step.
AttemptStarts(t) == t \notin inflight /\ t \in inflight'

\* A timer is set for t in this step.
TimerIsSet(t) == timers'[t] # NoTimer /\ timers'[t] # timers[t]

\* A lifecycle event requests a capture of t in this step: onCreated of an
\* active tab, onUpdated of an active tab, or the continuation of onActivated
\* or of onReplaced.
LifecycleRequest(t) ==
  \/ \E w \in WindowIds : TabCreated(t, w, TRUE)
  \/ RequestArrives(t)

LifecycleReasons == {"created-active", "updated-complete", "activated", "replaced-active"}

\* C26: no retry is scheduled automatically.  The step that ends a capture
\* attempt of a tab (image stored, blocked, transient failure or silent abort)
\* leaves no timer set and no call running for the tab; a timer is set for a
\* tab only by a lifecycle event that requests a capture of it (created
\* active, update of an active tab, activated, replaced active); and an
\* attempt starts only when such a timer fires.
C26_NoAutomaticRetry ==
  [][\A t \in TabIds :
       /\ AttemptEnds(t) =>
            (timers'[t] = NoTimer /\ armed'[t] = << >> /\ caps'[t] = << >>)
       /\ TimerIsSet(t) =>
            (LifecycleRequest(t) /\ timers'[t].reason \in LifecycleReasons)
       /\ AttemptStarts(t) =>
            (TimerFire(t) /\ timers[t] # NoTimer /\ armed[t] = <<timers[t]>>)]_vars

\* An attempt of an open, active tab has ended as blocked and nothing is
\* pending for the tab.
C26_Witness ==
  \E t \in TabIds :
    /\ IsOpen(t) /\ tabs[t].active
    /\ t \notin inflight /\ caps[t] = << >>
    /\ timers[t] = NoTimer /\ armed[t] = << >>
    /\ MapHas(entries, t) /\ MapGet(entries, t).blocked

\* ------------------------------------------------------------------ C27
\* A handler calls removeThumbnail(t) in this step (onRemoved, onReplaced);
\* its chrome.storage.session.remove, if it issues one, succeeds iff ok.
RemoveCalled(t, ok) ==
  \/ TabRemoved(t, ok)
  \/ \E a \in TabIds : TabReplaced(a, t, ok)

\* Everything but the entry and the record of t is as it was.
OthersUnchanged(t) ==
  /\ \A u \in TabIds \ {t} : MapGet(entries', u) = MapGet(entries, u)
  /\ \A k \in StorageKeys \ {t} : durable'[k] = durable[k]

\* C27: removeThumbnail(t) of a tab that has an entry deletes the entry,
\* lowers totalBytes by the bytes of that entry and deletes the record of t
\* in chrome.storage.session (when the storage accepts the delete), and
\* leaves the entries and records of the other tabs as they are; of a tab
\* without an entry it changes nothing, a record left in
\* chrome.storage.session included; and it never changes the timers, the
\* set timeouts, the in-flight set or a running capture.
C27_RemoveFrame ==
  [][\A t \in TabIds : \A ok \in BOOLEAN :
       RemoveCalled(t, ok) =>
         /\ IF MapHas(entries, t)
            THEN /\ ~MapHas(entries', t)
                 /\ Len(entries') = Len(entries) - 1
                 /\ totalBytes' = totalBytes - MapGet(entries, t).bytes
                 /\ durable'[t] = IF ok THEN NoEntry ELSE durable[t]
            ELSE /\ entries' = entries
                 /\ totalBytes' = totalBytes
                 /\ durable'[t] = durable[t]
         /\ OthersUnchanged(t)
         /\ UNCHANGED <<timers, armed, requested, inflight, caps>>]_vars

\* The tab has an entry, a timer is set for it and it is open: onRemoved is
\* about to call removeThumbnail on a present entry.
C27_Witness ==
  \E t \in TabIds :
    /\ Ready /\ IsOpen(t)
    /\ MapHas(entries, t) /\ MapGet(entries, t).bytes > 0
    /\ timers[t] # NoTimer

\* ------------------------------------------------------------------ C28
\* chrome.tabs.captureVisibleTab hands the call of t a screenshot in this
\* step: the picture of the tab that is visible in the window the call asked
\* for, which is the window the request named (line 308).
TakesScreenshot(t) == \E u \in ScreenshotUrls : ScreenshotTaken(t, u)

\* t is the active tab of window w.
ActiveIn(t, w) == IsOpen(t) /\ tabs[t].active /\ tabs[t].windowId = w

\* C28: every image stored under t was taken from a window in which t was the
\* active tab at the moment of the screenshot: when captureVisibleTab hands
\* the capture of t the picture it is going to store, t is the active tab of
\* the window that was captured, whatever tab events came between the
\* request, the re-check and the screenshot.
C28_ScreenshotShowsItsTab ==
  [][\A t \in TabIds :
       TakesScreenshot(t) => ActiveIn(t, caps[t][1].windowId)]_vars

\* The same at the moment of the re-check: a capture goes on to the
\* screenshot only when chrome.tabs.get reports the tab as active.
RecheckSeesActiveTab ==
  [][\A t \in TabIds :
       (caps[t] # << >> /\ caps[t][1].pc = "tabs.get"
        /\ caps'[t] # << >> /\ caps'[t][1].pc = "captureVisibleTab")
         => (IsOpen(t) /\ tabs[t].active)]_vars

\* ------------------------------------------------------------------ C29
\* An eviction pass of a put removes the entry of tab e in this step.
PassRemoves(e) ==
  /\ MapHas(entries, e) /\ ~MapHas(entries', e)
  /\ tabs' = tabs
  /\ boot.pc = "ready"

\* C29: eviction stays least-recently-updated under interleaving: the entry
\* an eviction pass removes has, at the moment of its removal, a lastUpdated
\* that is not greater than that of any entry that remains, also when puts
\* of this or other tabs have completed while the pass was suspended on a
\* chrome.storage.session.remove.
C29_EvictionStaysLru ==
  [][\A e \in TabIds :
       PassRemoves(e) =>
         \A k \in TabIds :
           MapHas(entries', k) =>
             MapGet(entries, e).lastUpdated <= MapGet(entries', k).lastUpdated]_vars

\* The same for a pass during whose suspensions no put has changed the index:
\* the first removal of each pass, made in the step that takes the snapshot.
FirstRemovalIsLru ==
  [][\A t, e \in TabIds :
       (StorageSetDone(t, MsgQuota, now, TRUE) /\ PassRemoves(e)) =>
         \A k \in TabIds :
           MapHas(entries', k) =>
             MapGet(entries, e).lastUpdated <= MapGet(entries', k).lastUpdated]_vars

\* ------------------------------------------------------------------ C30
\* The record stored for tab k is an object with no numeric lastUpdated.
Unstamped(k) ==
  durable[k] # NoEntry /\ durable[k] # NotAnObject /\ durable[k].lastUpdated = NotANumber

\* The record stored for tab k is an object with a numeric lastUpdated.
Stamped(k) ==
  durable[k] # NoEntry /\ durable[k] # NotAnObject /\ durable[k].lastUpdated # NotANumber

\* C30: entries without a timestamp sort first for eviction: of the entries
\* hydrate builds, one whose record has no numeric lastUpdated is evicted
\* before every entry whose record has one, so that no stamped entry is
\* evicted by hydrate's pass while an unstamped one remains.
C30_UnstampedEvictedFirst ==
  [][HydrateLoads =>
       \A keys \in KeyOrders(StoredKeys) :
         \A k, j \in TabIds :
           (Unstamped(k) /\ Stamped(j)
            /\ MapHas(hydrateThumbnailCacheDone(Store, keys, now).entries, k))
             => MapHas(hydrateThumbnailCacheDone(Store, keys, now).entries, j)]_vars

\* The same for the timestamp hydrate gives the entry: an entry built from an
\* unstamped record carries the time of the hydration.
UnstampedGetsNow ==
  [][HydrateLoads =>
       \A keys \in KeyOrders(StoredKeys) :
         \A k \in TabIds :
           Unstamped(k) => MapGet(Loaded(keys), k).lastUpdated = now]_vars

\* ------------------------------------------------------------------ C31
\* downscaleDataUrl fails for the capture of t in this step and the call
\* falls back to the screenshot it holds.
DownscaleFails(t) ==
  \E time \in Clock, ok \in BOOLEAN : Downscaled(t, FALSE, time, ok)

\* The entry of t is the full-resolution screenshot, not blocked, with the
\* bytes computed from it.
HoldsOriginal(m, t) ==
  /\ MapHas(m, t)
  /\ MapGet(m, t).dataUrl \in ScreenshotUrls
  /\ ~MapGet(m, t).blocked
  /\ MapGet(m, t).bytes = estimateDataUrlBytes(MapGet(m, t).dataUrl)

\* The put of the try block of the call of t is suspended on a storage call.
PutOfTryAwaits(t) ==
  /\ caps[t] # << >>
  /\ caps[t][1].pc \in {"storage.set", "storage.remove"}
  /\ ~caps[t][1].inCatch

\* When the downscaling fails the screenshot itself is stored as a
\* non-blocked entry with the bytes computed from it.
FallbackIsStored ==
  \A t \in TabIds :
    DownscaleFails(t) =>
      (HoldsOriginal(entries', t) /\ MapGet(entries', t).dataUrl = caps[t][1].img)

\* The put of the try block is followed by the thumb:update of the request:
\* while the service worker runs, the call neither ends nor enters the catch
\* block before it has sent it, and it sends it with the reason it was
\* requested with.
PutIsNotified ==
  \A t \in TabIds :
    (PutOfTryAwaits(t) /\ boot'.pc = "ready") =>
      /\ caps'[t] # << >>
      /\ ~caps'[t][1].inCatch
      /\ caps'[t][1].reason = caps[t][1].reason

\* C31: when the screenshot succeeds but the downscaling fails the capture
\* is not lost: the full-resolution image is stored as a non-blocked entry of
\* the tab with the bytes computed from it, and a thumb:update with the reason
\* of the request is sent.
C31_FallbackStoresOriginal == [][FallbackIsStored /\ PutIsNotified]_vars

\* The same with a storage that does not fail.
FallbackStoresOriginalIfStorageWorks ==
  [][(\A t \in TabIds : caps[t] # << >> => ~caps[t][1].rejects)
       => (FallbackIsStored /\ PutIsNotified)]_vars

\* ------------------------------------------------------------------ C32
\* The number of raw bytes the base64 payload of a data URL encodes: three
\* for every four characters, less one for each '=' of the padding.
DecodedBytes(dataUrl) == (dataUrl.payload * 3) \div 4 - dataUrl.pad

\* The bytes of the entry are the exact size of its image data.
BytesAreExact(entry) ==
  entry.bytes = IF entry.dataUrl = Null THEN 0 ELSE DecodedBytes(entry.dataUrl)

\* C32: the bytes of every entry is the exact size of its stored image data:
\* the number of raw bytes the base64 payload of its data URL encodes, and 0
\* when it has no image data, for entries written by a put and for entries
\* rebuilt by hydrate.
C32_BytesAreExact ==
  \A t \in TabIds : MapHas(entries, t) => BytesAreExact(MapGet(entries, t))

\* The same for the entries a put writes from an image whose payload has no
\* padding, and for blocked puts.
UnpaddedPutBytesAreExact ==
  [][\A t \in TabIds, time \in Clock :
       /\ \A u \in StoreImages :
            (u.pad = 0 /\ StorePut(t, u, FALSE, time) /\ MapHas(entries', t))
              => BytesAreExact(MapGet(entries', t))
       /\ (StorePut(t, Null, TRUE, time) /\ MapHas(entries', t))
              => BytesAreExact(MapGet(entries', t))]_vars

\* The same for the entry a put writes from an image whose payload is padded.
PaddedPutBytesAreExact ==
  [][\A t \in TabIds, time \in Clock, u \in StoreImages :
       (u.pad # 0 /\ StorePut(t, u, FALSE, time) /\ MapHas(entries', t))
         => BytesAreExact(MapGet(entries', t))]_vars

\* ------------------------------------------------------------------ C33
\* The call of t sends the thumb:update of a successful capture in this step
\* (line 332, not the one of the catch block).
SendsSuccess(t) == Sends(t) /\ ~caps'[t][1].inCatch

\* The index m holds a non-blocked entry with image data for t.
HoldsImage(m, t) ==
  MapHas(m, t) /\ ~MapGet(m, t).blocked /\ MapGet(m, t).dataUrl # Null

\* The eviction pass of the put of t removes an entry in this step.
OwnPassRemoves(t, e) ==
  /\ PutOfTryAwaits(t)
  /\ caps'[t] # caps[t]
  /\ MapHas(entries, e) /\ ~MapHas(entries', e)

\* C33: a notification never announces an entry that is already gone: at the
\* moment the thumb:update of a successful capture of t is sent the index
\* holds a non-blocked entry with image data for t, and the eviction pass of
\* a put never removes the entry that put has just written.
C33_NotifiedEntryIsPresent ==
  [][\A t \in TabIds :
       /\ SendsSuccess(t) => HoldsImage(entries', t)
       /\ ~OwnPassRemoves(t, t)]_vars

\* The same for the pass alone: it never removes the entry of its own put.
OwnPassKeepsOwnEntry == [][\A t \in TabIds : ~OwnPassRemoves(t, t)]_vars

\* ------------------------------------------------------------------ C34
\* A timeout is set for t and has neither fired nor been cleared.
TimerPending(t) == armed[t] # << >>

\* C34: no tab has both a pending debounce timer and a capture in flight, and
\* the timers map holds a tab exactly when a timeout set for it has neither
\* fired nor been cleared, which is then the only one and the one the map holds.
C34_TimerXorInflight ==
  \A t \in TabIds :
    /\ ~(TimerPending(t) /\ t \in inflight)
    /\ ~(timers[t] # NoTimer /\ t \in inflight)
    /\ timers[t] # NoTimer <=> TimerPending(t)
    /\ TimerPending(t) => armed[t] = <<timers[t]>>

\* A timer is pending for one tab while a capture of another is in flight.
C34_Witness ==
  \E t \in TabIds : \E u \in TabIds \ {t} :
    /\ TimerPending(t) /\ timers[t] # NoTimer /\ t \notin inflight
    /\ u \in inflight /\ timers[u] = NoTimer /\ ~TimerPending(u)

\* ------------------------------------------------------------------ C35
\* The timer of t fires, or the host call the capture of t awaits completes
\* successfully.
Proceed(t) ==
  \/ TimerFire(t)
  \/ CaptureGetTab(t, MsgNoTab, now, TRUE)
  \/ ScreenshotTaken(t, DataUrl(8))
  \/ \E shrunk \in BOOLEAN, time \in Clock : Downscaled(t, shrunk, time, TRUE)
  \/ StorageSetDone(t, MsgQuota, now, TRUE)
  \/ StorageRemoveDone(t, MsgQuota, now, TRUE)
  \/ NotifySettled(t)

\* Each tab opens as the active tab of a window of its own and stays so; the
\* one request of its creation is the only one, and nothing fails.
CalmNext ==
  \/ \E t \in FirstTabs : TabCreated(t, t, TRUE) /\ GraphIdle
  \/ \E t \in FirstTabs : Proceed(t) /\ GraphIdle
  \/ HydrateLoaded(<< >>, TRUE) /\ GraphIdle

\* CalmNext under the condition that the start-up read, every timer and every
\* host call complete.
CalmSpec ==
  /\ Init /\ [][CalmNext]_vars
  /\ WF_vars(HydrateLoaded(<< >>, TRUE) /\ GraphIdle)
  /\ \A t \in FirstTabs : WF_vars(Proceed(t) /\ GraphIdle)

\* The thumb:update of a successful capture of t is being sent.
SendingSuccess(t) ==
  caps[t] # << >> /\ caps[t][1].pc = "sendMessage" /\ ~caps[t][1].inCatch

\* C35: when a capture request is accepted for a tab that stays open, active
\* and capturable, no further request for it arrives, and the timer and every
\* host call complete successfully, then eventually the index holds a
\* non-blocked entry with image data for the tab and its thumb:update has
\* been sent.
C35_CaptureCompletes ==
  \A t \in FirstTabs :
    (requested[t] # NoRequest) ~> (SendingSuccess(t) /\ HoldsImage(entries, t))

\* The two halves one by one: the entry is written, and the message is sent.
CaptureStoresAndSends ==
  \A t \in FirstTabs :
    /\ (requested[t] # NoRequest) ~> HoldsImage(entries, t)
    /\ (requested[t] # NoRequest) ~> SendingSuccess(t)

\* ------------------------------------------------------------------ C36
\* hydrateThumbnailCache has been called by init() and has not returned.
Hydrating == boot.pc \in {"storage.get", "storage.remove"}

\* This step is one of hydrateThumbnailCache.
HydrateStep ==
  \/ \E keys \in KeyOrders(StoredKeys), ok \in BOOLEAN : HydrateLoaded(keys, ok)
  \/ \E ok \in BOOLEAN : HydrateRemoveDone(ok)

\* Until the loop of hydrate runs, this process has written nothing.
HydrateStartsEmpty ==
  boot.pc = "storage.get" => (entries = << >> /\ totalBytes = 0)

\* While hydrate runs no request is accepted, no timer is set, no capture is
\* called and no lookup of a tab event is under way.
NoCacheActivity ==
  /\ \A t \in TabIds :
       /\ timers[t] = NoTimer /\ armed[t] = << >> /\ requested[t] = NoRequest
       /\ caps[t] = << >>
  /\ inflight = {}
  /\ lookups = {}

\* C36: hydration comes before any other cache activity.  While hydrate has
\* not completed no capture request, put or remove is processed: hydrate
\* starts from an empty index, and until it returns only its own steps change
\* the index, the byte total and chrome.storage.session.
C36_HydrateComesFirst ==
  /\ [](Hydrating => (NoCacheActivity /\ HydrateStartsEmpty))
  /\ [][(Hydrating /\ ~HydrateStep) => UNCHANGED <<entries, totalBytes, durable>>]_vars

\* The service worker has started again with thumbnails of two tabs left in
\* chrome.storage.session, and hydrate is about to load them.
C36_Witness ==
  /\ boot.pc = "storage.get"
  /\ \E t \in TabIds : \E u \in TabIds \ {t} : {t, u} \subseteq StoredKeys
  /\ \E t \in TabIds : IsOpen(t)

\* ================================================================ tab graph
\* The pause after which a tab event no longer follows the previous one closely.
GRAPH_BROADCAST_DELAY_MS == 75

\* Time is followed in steps of TickMs; at most MaxEvents tab activations come.
TickMs == 25
MaxEvents == 2

\* The tab the browser reports as the opener of t: each tab was opened from
\* the one before it, the first from none (0 stands for undefined).
OpenerOf(t) == t - 1

\* typeof tab.openerTabId === 'number' (lines 244, 251).
HasOpener(tab) == tab.openerTabId # 0

\* The tab object chrome hands to a listener or returns from chrome.tabs.get,
\* as far as buildGraph reads it.
TabObject(t) == [id |-> t, openerTabId |-> OpenerOf(t)]

\* isValidTab (lines 279-281).
isValidTab(tab) == tab # NoEntry /\ tab.id \in Nat

\* buildGraph (lines 233-257) over the tab map m: a node for every valid tab,
\* an edge for every valid tab whose opener is a key of the map.
buildGraph(m) ==
  [nodes |-> {m[i][2].id : i \in {j \in DOMAIN m : isValidTab(m[j][2])}},
   edges |-> {[from |-> m[i][2].openerTabId, to |-> m[i][2].id] :
                i \in {j \in DOMAIN m : /\ isValidTab(m[j][2])
                                        /\ HasOpener(m[j][2])
                                        /\ MapHas(m, m[j][2].openerTabId)}}]

\* scheduleGraphBroadcast (lines 259-277) up to its setTimeout: a pending
\* timeout is cleared and a new one set.
scheduleGraphBroadcast(g) ==
  [g EXCEPT !.set = IF g.broadcastTimer # Null /\ @ > 0 THEN (@ - 1) + 1 ELSE @ + 1,
            !.broadcastTimer = [timer |-> TRUE, delay |-> GRAPH_BROADCAST_DELAY_MS],
            !.left = GRAPH_BROADCAST_DELAY_MS]

\* A tab event arrives: it opens a new burst when it comes
\* GRAPH_BROADCAST_DELAY_MS or more after the previous one.
Arrive(g) ==
  [g EXCEPT !.burst = IF g.idle >= GRAPH_BROADCAST_DELAY_MS THEN 0 ELSE @,
            !.idle = 0,
            !.events = @ + 1]

\* refreshAllTabs (lines 223-231) as init() calls it: the map is filled with
\* the tabs chrome.tabs.query returns, and a broadcast is scheduled.
refreshAllTabs(g) ==
  LET open == {t \in TabIds : IsOpen(t)}
      RECURSIVE Fill(_, _)
      Fill(m, rest) ==
        IF rest = {} THEN m
        ELSE LET t == CHOOSE u \in rest : \A v \in rest : u <= v
             IN  Fill(MapSet(m, t, TabObject(t)), rest \ {t})
  IN  scheduleGraphBroadcast([g EXCEPT !.tabs = Fill(<< >>, open)])

\* The part of chrome.tabs.onCreated that keeps the graph (lines 52-54).
onCreated(t) ==
  graph' = scheduleGraphBroadcast(
             [Arrive(graph) EXCEPT !.tabs = MapSet(graph.tabs, t, TabObject(t))])

\* The part of chrome.tabs.onRemoved that keeps the graph (lines 86-87).
onRemoved(t) ==
  graph' = scheduleGraphBroadcast(
             [Arrive(graph) EXCEPT !.tabs = MapDelete(graph.tabs, t)])

\* chrome.tabs.onActivated is dispatched (line 73); the handler awaits
\* chrome.tabs.get.
onActivated(t) ==
  /\ graph.events < MaxEvents
  /\ graph' = Arrive(graph)

\* chrome.tabs.get settles in onActivated: the tab is put into the map and a
\* broadcast is scheduled, unless the tab is gone (lines 75-78).
onActivatedLookupDone(t) ==
  graph' = IF IsOpen(t)
           THEN scheduleGraphBroadcast(
                  [graph EXCEPT !.tabs = MapSet(graph.tabs, t, TabObject(t))])
           ELSE graph

\* TickMs pass.
GraphTick ==
  /\ graph.idle < GRAPH_BROADCAST_DELAY_MS \/ (graph.set > 0 /\ graph.left > 0)
  /\ graph' = [graph EXCEPT
                 !.idle = IF @ + TickMs >= GRAPH_BROADCAST_DELAY_MS
                          THEN GRAPH_BROADCAST_DELAY_MS ELSE @ + TickMs,
                 !.left = IF @ <= TickMs THEN 0 ELSE @ - TickMs]
  /\ UNCHANGED <<boot, tabs, timers, armed, requested, inflight, caps, lookups,
                 entries, totalBytes, durable, now, faults, page>>

\* A timeout set by scheduleGraphBroadcast is due and its callback runs
\* (lines 264-275): graph:update is sent with the graph built now.
BroadcastFire ==
  /\ graph.set > 0
  /\ graph.left = 0
  /\ graph' = [graph EXCEPT !.set = @ - 1,
                            !.broadcastTimer = Null,
                            !.burst = @ + 1,
                            !.sent = buildGraph(graph.tabs)]
  /\ UNCHANGED <<boot, tabs, timers, armed, requested, inflight, caps, lookups,
                 entries, totalBytes, durable, now, faults, page>>

\* The graph under tab events: tabs open in one window, are activated and
\* close, while time passes; nothing fails and no capture timer fires.
GraphNext ==
  \/ HydrateLoaded(<< >>, TRUE) /\ graph' = refreshAllTabs(graph) /\ UNCHANGED page
  \/ \E t \in TabIds, a \in BOOLEAN : TabCreated(t, 1, a) /\ onCreated(t) /\ UNCHANGED page
  \/ \E t \in TabIds : TabRemoved(t, TRUE) /\ onRemoved(t) /\ UNCHANGED page
  \/ \E t \in TabIds : TabActivated(t) /\ onActivated(t) /\ UNCHANGED page
  \/ \E l \in lookups : LookupDone(l) /\ onActivatedLookupDone(l.tabId) /\ UNCHANGED page
  \/ GraphTick
  \/ BroadcastFire

\* GraphNext under the condition that time passes, that a timeout that is due
\* fires and that chrome.tabs.get settles.
GraphSpec ==
  /\ Init /\ [][GraphNext]_vars
  /\ WF_vars(HydrateLoaded(<< >>, TRUE) /\ graph' = refreshAllTabs(graph) /\ UNCHANGED page)
  /\ WF_vars(\E l \in lookups : LookupDone(l) /\ onActivatedLookupDone(l.tabId) /\ UNCHANGED page)
  /\ WF_vars(GraphTick)
  /\ WF_vars(BroadcastFire)

\* ------------------------------------------------------------------ C38
\* At most one timeout is set for a broadcast, and it is the one graphState
\* holds.
OneBroadcastTimer ==
  /\ graph.set <= 1
  /\ graph.set = 1 <=> graph.broadcastTimer # Null

\* Tab events that follow each other within GRAPH_BROADCAST_DELAY_MS lead to
\* no more than one graph:update.
OneUpdatePerBurst == graph.burst <= 1

\* The graph:update sent in this step carries the tabs of the map as they are
\* now, and edges between them only.
SendsTheMap ==
  graph'.sent # graph.sent =>
    /\ graph'.sent.nodes = {graph.tabs[i][1] : i \in DOMAIN graph.tabs}
    /\ \A e \in graph'.sent.edges :
         e.from \in graph'.sent.nodes /\ e.to \in graph'.sent.nodes

\* In the end the graph of the last graph:update is that of the tab map, and
\* no timer is left.
Broadcast ==
  /\ graph.set = 0
  /\ graph.sent # Null
  /\ graph.sent = buildGraph(graph.tabs)

\* C38: graph broadcasts are debounced and never lost.  At most one broadcast
\* timer is pending; tab events that each arrive less than 75 ms after the
\* previous one produce one graph:update; and after the last tab event a
\* graph:update is sent whose nodes are the valid tabs of the tab map at that
\* time and whose edges connect tabs of that node set only.
C38_BroadcastsAreDebounced ==
  /\ []OneBroadcastTimer
  /\ []OneUpdatePerBurst
  /\ [][SendsTheMap]_vars
  /\ <>[]Broadcast

\* The same without the count of messages per burst.
BroadcastsAreNeverLost ==
  /\ []OneBroadcastTimer
  /\ [][SendsTheMap]_vars
  /\ <>[]Broadcast

\* ===================================================================== page
\* At most MaxFetches calls of requestThumbnail and handleThumbUpdate are
\* suspended at a time.
MaxFetches == 2

\* One suspended call of requestThumbnail or handleThumbUpdate (fn) for tabId:
\* the host call it awaits (pc) and, while it decodes, the data URL it read.
Fetch(fn, tabId, pc, dataUrl) ==
  [fn |-> fn, tabId |-> tabId, pc |-> pc, dataUrl |-> dataUrl]

\* A value of state.thumbnails (ui/tabgraph.js line 44).
Thumbnail(bitmap, blocked) == [bitmap |-> bitmap, blocked |-> blocked]

\* syncThumbnails (ui/tabgraph.js lines 203-225) over the page p whose graph
\* is already the new one: thumbnails of tabs that left the graph are dropped,
\* and requestThumbnail is called for every node without a thumbnail.
syncThumbnails(p) ==
  LET missing == {t \in p.nodes : p.thumbnails[t] = NoEntry}
  IN  [p EXCEPT
         !.thumbnails = [t \in TabIds |-> IF t \in p.nodes THEN p.thumbnails[t]
                                          ELSE NoEntry],
         !.pendingThumbs = {t \in p.pendingThumbs :
                              t \in p.nodes \/ p.thumbnails[t] = NoEntry} \cup missing,
         !.fetches = @ \cup {Fetch("requestThumbnail", t, "thumb:get", Null) :
                               t \in missing}]

\* updateGraph (ui/tabgraph.js lines 128-141): a graph:update, or the response
\* to graph:get, with the nodes `nodes` reaches the page.
updateGraph(nodes) ==
  /\ Ready
  /\ page' = syncThumbnails([page EXCEPT !.nodes = nodes])
  /\ Cardinality(page'.fetches) <= MaxFetches
  /\ UNCHANGED <<boot, tabs, timers, armed, requested, inflight, caps, lookups,
                 entries, totalBytes, durable, now, faults, graph>>

\* notifyThumbUpdate after a put (lines 332, 341): thumb:update for t is on
\* its way to the page.
Notified(t) == page' = [page EXCEPT !.inbox = @ \cup {t}]

\* The message listener of the page gets thumb:update for t and
\* handleThumbUpdate runs up to its await (ui/tabgraph.js lines 103-104,
\* 249-255).
ThumbUpdateArrives(t) ==
  /\ t \in page.inbox
  /\ page' = IF t \notin page.nodes
             THEN [page EXCEPT !.inbox = @ \ {t}, !.pendingThumbs = @ \ {t}]
             ELSE [page EXCEPT !.inbox = @ \ {t},
                               !.fetches = @ \cup {Fetch("handleThumbUpdate", t,
                                                         "thumb:get", Null)}]
  /\ Cardinality(page'.fetches) <= MaxFetches
  /\ UNCHANGED <<boot, tabs, timers, armed, requested, inflight, caps, lookups,
                 entries, totalBytes, durable, now, faults, graph>>

\* The service worker answers the thumb:get of the fetch f and the call goes
\* on with the response (ui/tabgraph.js lines 229-243, 256-271).
ThumbGetAnswered(f) ==
  /\ f \in page.fetches
  /\ f.pc = "thumb:get"
  /\ LET response == ThumbGet(entries, f.tabId)
         rest == page.fetches \ {f}
     IN  page' =
           IF response.blocked
           THEN [page EXCEPT !.fetches = rest,
                             !.thumbnails[f.tabId] = Thumbnail(Null, TRUE),
                             !.pendingThumbs = @ \ {f.tabId}]
           ELSE IF response.found
           THEN [page EXCEPT !.fetches = rest \cup {[f EXCEPT !.pc = "storage.get"]}]
           ELSE IF f.fn = "requestThumbnail"
           THEN [page EXCEPT !.fetches = rest, !.pendingThumbs = @ \cup {f.tabId}]
           ELSE [page EXCEPT !.fetches = rest]
  /\ UNCHANGED <<boot, tabs, timers, armed, requested, inflight, caps, lookups,
                 entries, totalBytes, durable, now, faults, graph>>

\* chrome.storage.session.get(key) resolves in loadThumbnailFromStorage
\* (ui/tabgraph.js lines 277-289).
StorageRead(f) ==
  /\ f \in page.fetches
  /\ f.pc = "storage.get"
  /\ LET entry == durable[f.tabId]
         rest == page.fetches \ {f}
     IN  page' =
           IF entry = NoEntry \/ entry.blocked
           THEN [page EXCEPT !.fetches = rest,
                             !.thumbnails[f.tabId] =
                               Thumbnail(Null, entry # NoEntry /\ entry.blocked),
                             !.pendingThumbs = @ \ {f.tabId}]
           ELSE IF entry.dataUrl = Null
           THEN [page EXCEPT !.fetches = rest]
           ELSE [page EXCEPT !.fetches =
                   rest \cup {[f EXCEPT !.pc = "decode", !.dataUrl = entry.dataUrl]}]
  /\ UNCHANGED <<boot, tabs, timers, armed, requested, inflight, caps, lookups,
                 entries, totalBytes, durable, now, faults, graph>>

\* dataUrlToImageBitmap resolves (ui/tabgraph.js lines 291-299).
Decoded(f) ==
  /\ f \in page.fetches
  /\ f.pc = "decode"
  /\ page' = [page EXCEPT !.fetches = @ \ {f},
                          !.thumbnails[f.tabId] = Thumbnail(f.dataUrl, FALSE),
                          !.pendingThumbs = @ \ {f.tabId}]
  /\ UNCHANGED <<boot, tabs, timers, armed, requested, inflight, caps, lookups,
                 entries, totalBytes, durable, now, faults, graph>>

\* The page beside the cache: captures end in a put of an image or of a
\* blocked entry, each followed by thumb:update; the graph of the page changes;
\* the fetches of the page settle in any order.  Nothing fails.
PageNext ==
  \/ HydrateLoaded(<< >>, TRUE) /\ UNCHANGED <<graph, page>>
  \/ \E t \in FirstTabs : StorePut(t, ThumbUrl, FALSE, now) /\ Notified(t) /\ UNCHANGED graph
  \/ \E t \in FirstTabs : StorePut(t, Null, TRUE, now) /\ Notified(t) /\ UNCHANGED graph
  \/ \E nodes \in SUBSET FirstTabs : updateGraph(nodes)
  \/ \E t \in TabIds : ThumbUpdateArrives(t)
  \/ \E f \in page.fetches : ThumbGetAnswered(f)
  \/ \E f \in page.fetches : StorageRead(f)
  \/ \E f \in page.fetches : Decoded(f)

PageSpec == Init /\ [][PageNext]_vars

\* ------------------------------------------------------------------ C37
\* Nothing of the page is under way for t: no thumb:update on its way, no
\* thumb:get, storage read or image decode of a fetch for t.
PageSettled(t) ==
  /\ t \notin page.inbox
  /\ \A f \in page.fetches : f.tabId # t

\* The blocked flag the page holds for t.
PageBlocked(t) == page.thumbnails[t] # NoEntry /\ page.thumbnails[t].blocked

\* For a tab of the page's graph with an entry in the cache, the page's
\* blocked flag is that of the entry once nothing is under way for the tab.
PageConverges ==
  \A t \in TabIds :
    (t \in page.nodes /\ MapHas(entries, t) /\ PageSettled(t)) =>
      PageBlocked(t) = MapGet(entries, t).blocked

\* The page holds thumbnails only for tabs of its current graph.
OnlyGraphTabs ==
  \A t \in TabIds : page.thumbnails[t] # NoEntry => t \in page.nodes

\* C37: the per-tab thumbnail state of the page converges to the cache.  Once
\* every thumb:get, storage read and image decode of the page for a tab has
\* settled, the page's blocked flag for the tab equals the blocked flag of the
\* tab's cache entry, also when fetches for the tab overlap and finish out of
\* order; and the page holds thumbnails only for tabs of its current graph.
C37_PageConvergesToCache == PageConverges /\ OnlyGraphTabs
====
